---------------------------- MODULE Spec2Model ----------------------------
(***************************************************************************)
(* A model of tablite's paged column storage (src/tablite/base.py) and of  *)
(* the range intersection it slices with (src/tablite/utils.py).           *)
(*                                                                         *)
(* Values are integers (one dtype).  A Python object that only the         *)
(* interpreter can reach (a Table, a Column, a Page) lives in a heap       *)
(* variable; CPython's reference counting is part of every action: a Page  *)
(* no live Column lists is finalised at once (Page.__del__), which removes *)
(* its file.                                                               *)
(***************************************************************************)
EXTENDS Integers, Sequences, FiniteSets, TLC

\* ------------------------------------------------------------------ bounds
MaxRange == 5      \* range starts and stops are drawn from -1 .. MaxRange
MaxStep == 3       \* range steps are drawn from -MaxStep .. MaxStep, 0 excluded
MaxLen == 3        \* longest array given to one __setitem__ / extend
MaxPageSize == 2   \* Config.PAGE_SIZE is drawn from 1 .. MaxPageSize
MaxTables == 3     \* table variables the program holds at one time
MaxPageId == 3     \* Page ids handed out in one run of the lifecycle
MaxTableId == 2    \* Table ids handed out in one run of the lifecycle
MaxArr == 2        \* longest array given to __setitem__ in the lifecycle
MaxRows == 3       \* most data rows in a file given to the text reader
MaxCpu == 2        \* psutil.cpu_count() is drawn from 1 .. MaxCpu
MaxKey == 2        \* cell values of sorted and joined tables are drawn from 1 .. MaxKey
MaxNames == 2      \* most columns of a table in the joins on column names
MaxAdds == 2       \* most tables added to one GroupBy, of MaxRows rows together

\* Config.PAGE_SIZE as the program starts
DefaultPageSize == 1000000

\* ----------------------------------------------------------------- helpers
Max(a, b) == IF a >= b THEN a ELSE b

Min(a, b) == IF a <= b THEN a ELSE b

\* math.ceil(x / y) for y > 0
CeilDiv(x, y) == -((-x) \div y)

RECURSIVE SumSeq(_)
SumSeq(s) == IF s = <<>> THEN 0 ELSE Head(s) + SumSeq(Tail(s))

RECURSIVE Flatten(_)
Flatten(ss) == IF ss = <<>> THEN <<>> ELSE Head(ss) \o Flatten(Tail(ss))

SeqRange(s) == {s[i] : i \in 1..Len(s)}

\* Python's None, and an int where None may stand
None == <<>>

Some(v) == <<v>>

Val(o) == o[1]

\* ------------------------------------------------------------------ ranges
Range(a, b, s) == [start |-> a, stop |-> b, step |-> s]

\* len(range(start, stop, step))
RangeLen(r) ==
    IF r.step > 0
    THEN (IF r.stop > r.start THEN CeilDiv(r.stop - r.start, r.step) ELSE 0)
    ELSE (IF r.start > r.stop THEN CeilDiv(r.start - r.stop, -r.step) ELSE 0)

\* list(range(start, stop, step))
RangeSeq(r) == [k \in 1..RangeLen(r) |-> r.start + (k - 1) * r.step]

\* set(range(start, stop, step))
RangeSet(r) == {r.start + k * r.step : k \in 0..(RangeLen(r) - 1)}

Result(k, v) == [kind |-> k, val |-> v]

EmptyRange == Result("range", Range(0, 0, 1))

\* utils.py:83-86: a range with a step below 1 is replaced by the unit-step
\* range over its span
Ascending(r) == IF r.step < 1 THEN Range(r.stop + 1, r.start + 1, 1) ELSE r

\* utils.py:98-113: the overlap [start, end) of the two spans
OverlapStart(A, B) == IF A.start <= B.start THEN B.start ELSE A.start

OverlapEnd(A, B) == IF A.stop <= B.stop THEN A.stop ELSE B.stop

\* utils.py:115-119: the first element of R at or after start
FirstFrom(R, start) == CeilDiv(start - R.start, R.step) * R.step + R.start

\* utils.py:131-139: step through one range until a value of the other is met.
\* Both loops test the remainder by B.step; the loop that finds nothing falls
\* off the end of the function, which returns None.
InterceptSearch(A, B, a_start, b_start, end) ==
    LET from == IF A.step < B.step THEN a_start ELSE b_start
        by == IF A.step < B.step THEN A.step ELSE B.step
        other == IF A.step < B.step THEN b_start ELSE a_start
        hits == {n \in RangeSet(Range(from, end, by)) : (n - other) % B.step = 0}
    IN  IF hits = {}
        THEN Result("None", Range(0, 0, 1))
        ELSE LET n == CHOOSE x \in hits : \A y \in hits : x <= y
             IN  Result("range", Range(n, end, A.step * B.step))

\* utils.py:121-139
InterceptSteps(A, B, start, end) ==
    LET a_start == FirstFrom(A, start)
        b_start == FirstFrom(B, start)
    IN  IF A.step = 1 \/ B.step = 1
        THEN Result("range", Range(Max(a_start, b_start), end, Max(A.step, B.step)))
        ELSE IF A.step = B.step
        THEN (IF (Max(A.start, B.start) - Min(A.start, B.start)) % A.step # 0
              THEN EmptyRange
              \* `step` is bound only in the unit-step branch
              ELSE Result("UnboundLocalError", Range(0, 0, 1)))
        ELSE InterceptSearch(A, B, a_start, b_start, end)

\* utils.py:69-139
intercept(A0, B0) ==
    LET A == Ascending(A0)
        B == Ascending(B0)
    IN  IF RangeLen(A) = 0 \/ RangeLen(B) = 0 THEN EmptyRange
        ELSE IF A.stop <= B.start \/ A.start >= B.stop THEN EmptyRange
        ELSE InterceptSteps(A, B, OverlapStart(A, B), OverlapEnd(A, B))

\* ------------------------------------------------------------------ slices
Slice(a, b, s) == [start |-> a, stop |-> b, step |-> s]

\* slice.indices(length): CPython's PySlice_Unpack and PySlice_AdjustIndices
ClipIndex(o, length, step, dflt_pos, dflt_neg) ==
    IF o = None THEN (IF step < 0 THEN dflt_neg ELSE dflt_pos)
    ELSE LET v == Val(o)
         IN  IF v < 0
             THEN (IF v + length < 0 THEN (IF step < 0 THEN -1 ELSE 0) ELSE v + length)
             ELSE (IF v >= length THEN (IF step < 0 THEN length - 1 ELSE length) ELSE v)

Indices(slc, length) ==
    LET step == IF slc.step = None THEN 1 ELSE Val(slc.step)
    IN  Range(ClipIndex(slc.start, length, step, 0, length - 1),
              ClipIndex(slc.stop, length, step, length, -1),
              step)

\* data[slc] for a Python list or a numpy array
PySlice(data, slc) ==
    LET ix == RangeSeq(Indices(slc, Len(data)))
    IN  [k \in 1..Len(ix) |-> data[ix[k] + 1]]


\* ------------------------------------------------------------------- state
VARIABLES
    PAGE_SIZE,    \* Config.PAGE_SIZE
    tables,       \* program variable -> the Table it holds: [id, cols]
    columns,      \* Column object -> its list of pages (Column.pages)
    pages,        \* Page object (by id) -> Page.len
    files,        \* <pid dir>/pages/<id>.npy -> the array stored in it
    root,         \* whether the directory <workdir>/pid-<pid> exists
    registry,     \* file_registry
    exited,       \* the atexit hook has run
    nextPageId,   \* Page._ids
    nextTableId,  \* Table._ids
    archives,     \* user path -> the .tpz archive written there
    last          \* the last call and what it returned

vars == <<PAGE_SIZE, tables, columns, pages, files, root, registry, exited,
          nextPageId, nextTableId, archives, last>>

Handles == 1..MaxTables

Names == {"A", "B"}

PidDir == "pid"

\* The value of a program variable that holds no Table
NoTable == [id |-> -1, cols |-> <<>>]

Live(t) == tables[t] # NoTable

\* A directory, or a heap, with nothing in it
NoFiles == [p \in {} |-> <<>>]

\* The part of the state the Column and Page code works on
Heap == [columns |-> columns, pages |-> pages, files |-> files, next |-> nextPageId]

Call(op, t, key, res) == [op |-> op, t |-> t, key |-> key, res |-> res]

\* ------------------------------------------------------------ Page, Column
\* Page.__init__ were it to take the lowest id that no page file carries, so
\* that the id of a deleted page is handed out again
RECURSIVE AddPagesReusingIds(_, _, _)
AddPagesReusingIds(h, c, arrays) ==
    IF arrays = <<>> THEN h
    ELSE LET id == CHOOSE i \in 1..h.next : i \notin DOMAIN h.files /\ \A j \in 1..(i - 1) : j \in DOMAIN h.files
             h1 == [columns |-> [h.columns EXCEPT ![c] = Append(@, id)],
                    pages |-> [p \in DOMAIN h.pages \cup {id} |->
                                  IF p = id THEN Len(Head(arrays)) ELSE h.pages[p]],
                    files |-> [p \in DOMAIN h.files \cup {id} |->
                                  IF p = id THEN Head(arrays) ELSE h.files[p]],
                    next |-> h.next + 1]
         IN  AddPagesReusingIds(h1, c, Tail(arrays))

\* base.py:40-54  Page.__init__ for each array in turn, appended to column c
RECURSIVE AddPages(_, _, _)
AddPages(h, c, arrays) ==
    IF arrays = <<>> THEN h
    ELSE LET id == h.next
             h1 == [columns |-> [h.columns EXCEPT ![c] = Append(@, id)],
                    pages |-> [p \in DOMAIN h.pages \cup {id} |->
                                  IF p = id THEN Len(Head(arrays)) ELSE h.pages[p]],
                    files |-> [p \in DOMAIN h.files \cup {id} |->
                                  IF p = id THEN Head(arrays) ELSE h.files[p]],
                    next |-> id + 1]
         IN  AddPages(h1, c, Tail(arrays))

\* Column._paginate were it to round the number of pages down: the values
\* after the last full page are left out
PaginateFloor(values, page_size) ==
    [k \in 1..(Len(values) \div page_size) |->
        SubSeq(values, (k - 1) * page_size + 1, k * page_size)]

\* base.py:82-106  Column._paginate
_paginate(values, page_size) ==
    LET n == CeilDiv(Len(values), page_size) * page_size
        ends == RangeSeq(Range(page_size, n + 1, page_size))
    IN  [k \in 1..Len(ends) |->
            SubSeq(values, ends[k] - page_size + 1, Min(ends[k], Len(values)))]

\* base.py:111-114  Column.extend
extend(h, c, value, page_size) == AddPages(h, c, _paginate(value, page_size))

\* base.py:78-79  Column.extend_from_pages
extend_from_pages(h, c, page) == [h EXCEPT !.columns[c] = Append(@, page)]

\* base.py:69-73  Column.__init__ without a value: a new Column object
NewColumnId(h) == CHOOSE c \in 1..(Cardinality(DOMAIN h.columns) + 1) : c \notin DOMAIN h.columns

NewColumn(h, c) ==
    [h EXCEPT !.columns = [x \in DOMAIN h.columns \cup {c} |->
                              IF x = c THEN <<>> ELSE h.columns[x]]]

\* base.py:75-76  Column.__len__
ColumnLen(h, c) == SumSeq([i \in 1..Len(h.columns[c]) |-> h.pages[h.columns[c][i]]])

\* base.py:159-162  Column.__iter__, as a list
ColumnData(h, c) == Flatten([i \in 1..Len(h.columns[c]) |-> h.files[h.columns[c][i]]])

PageItem(id) == [kind |-> "page", id |-> id, val |-> <<>>]

ArrayItem(a) == [kind |-> "array", id |-> 0, val |-> a]

\* getpages were it to read and slice every page, the ones covered whole too
SharePageCopy(h, p, start, ro) ==
    ArrayItem(PySlice(h.files[p],
                      Slice(Some(ro.start - start), Some(ro.stop - start), Some(ro.step))))

\* base.py:150-156: a page the slice covers whole is shared, any other is
\* read and sliced
SharePage(h, p, start, ro) ==
    IF RangeLen(ro) = h.pages[p]
    THEN PageItem(p)
    ELSE ArrayItem(PySlice(h.files[p],
                           Slice(Some(ro.start - start), Some(ro.stop - start), Some(ro.step))))

\* base.py:141-156: the loop of getpages from page number i on, the pages
\* before it ending at offset `offset`.  intercept is called with the unit
\* step range of the page, so it returns a range on every input.
RECURSIVE GetPagesLoop(_, _, _, _, _, _)
GetPagesLoop(h, pgs, i, offset, item, range_item) ==
    IF i > Len(pgs) THEN <<>>
    ELSE LET p == pgs[i]
             start == offset
             end == offset + h.pages[p]
             ro == intercept(Range(start, end, 1), range_item).val
             rest == GetPagesLoop(h, pgs, i + 1, end, item, range_item)
         IN  IF start > item.stop THEN <<>>
             ELSE IF end < item.start THEN rest
             ELSE IF RangeLen(ro) = 0 THEN rest
             ELSE <<SharePage(h, p, start, ro)>> \o rest

\* base.py:134-157  Column.getpages: the slice is normalised with
\* slice.indices, and the normalised slice is given to slice.indices again
getpages(h, c, slc) ==
    LET n == ColumnLen(h, c)
        ix == Indices(slc, n)
        item == Slice(Some(ix.start), Some(ix.stop), Some(ix.step))
        range_item == Indices(item, n)
    IN  GetPagesLoop(h, h.columns[c], 1, 0, ix, range_item)

\* base.py:116-132  Column.__getitem__: with no array to concatenate, `dtype`
\* is read before it is bound
ColumnGetItem(h, c, slc) ==
    LET got == getpages(h, c, slc)
        result == [i \in 1..Len(got) |->
                      IF got[i].kind = "page" THEN h.files[got[i].id] ELSE got[i].val]
    IN  IF result = <<>>
        THEN Result("UnboundLocalError", <<>>)
        ELSE Result("array", Flatten(result))

\* base.py:164-177  Column.__eq__ with another Column
ColumnEq(h, c1, c2) ==
    IF ColumnLen(h, c1) # ColumnLen(h, c2) THEN FALSE
    ELSE IF h.columns[c1] = h.columns[c2] THEN TRUE
    ELSE ColumnData(h, c1) = ColumnData(h, c2)

\* ------------------------------------------------------------------- Table
ColNames(cols) == [i \in 1..Len(cols) |-> cols[i].name]

HasName(cols, name) == \E i \in 1..Len(cols) : cols[i].name = name

ColOf(cols, name) == cols[CHOOSE i \in 1..Len(cols) : cols[i].name = name].col

\* dict.__setitem__: a key the dict holds keeps its place
DictSet(cols, name, c) ==
    IF HasName(cols, name)
    THEN [i \in 1..Len(cols) |-> IF cols[i].name = name THEN [name |-> name, col |-> c] ELSE cols[i]]
    ELSE Append(cols, [name |-> name, col |-> c])

ColsOfTable(tb) == {tb.cols[i].col : i \in 1..Len(tb.cols)}

\* The Column objects some Table holds, and the Page objects they list
RefColumns(tbls) == UNION {ColsOfTable(tbls[t]) : t \in DOMAIN tbls}

RefPages(tbls, cols) == UNION {SeqRange(cols[c]) : c \in RefColumns(tbls)}

\* Finalisation were a Column to own its pages: the pages of every Column no
\* Table holds are removed, those another Column lists too
FinalisedByColumn(tbls, h) ==
    UNION {SeqRange(h.columns[c]) : c \in DOMAIN h.columns \ RefColumns(tbls)}

\* base.py:59-62  Page.__del__: CPython finalises an object when its last
\* reference goes, so the Columns no Table holds and the Pages no Column
\* lists are dropped, and each such Page removes its file
Finalised(tbls, h) == DOMAIN h.pages \ RefPages(tbls, h.columns)

\* Collection were Page to have no __del__: the objects go, the files stay
CollectKeepFiles(tbls, h) ==
    [columns |-> [c \in RefColumns(tbls) |-> h.columns[c]],
     pages |-> [p \in RefPages(tbls, h.columns) |-> h.pages[p]],
     files |-> h.files,
     next |-> h.next]

Collect(tbls, h) ==
    [columns |-> [c \in RefColumns(tbls) |-> h.columns[c]],
     pages |-> [p \in RefPages(tbls, h.columns) |-> h.pages[p]],
     files |-> [p \in DOMAIN h.files \ Finalised(tbls, h) |-> h.files[p]],
     next |-> h.next]

\* base.py:326-327  Table.__len__ (max() of no columns raises ValueError)
TableLen(h, cols) ==
    CHOOSE n \in {ColumnLen(h, cols[i].col) : i \in 1..Len(cols)} :
        \A j \in 1..Len(cols) : ColumnLen(h, cols[j].col) <= n

\* base.py:241-243  Table.items(): the column names in order with their values
TableData(h, cols) ==
    [i \in 1..Len(cols) |-> [name |-> cols[i].name, data |-> ColumnData(h, cols[i].col)]]

FreeHandles == {t \in Handles : tables[t] = NoTable}

NewHandle == CHOOSE t \in FreeHandles : \A u \in FreeHandles : t <= u

\* A call that constructs a Table and may write pages stays within the ids of
\* the run, and the program has a variable left to keep the Table in
CanConstruct(h, lim) ==
    /\ FreeHandles # {}
    /\ nextTableId < MaxTableId
    /\ h.next - 1 <= lim

\* Column objects have no name in the program: the model numbers them in
\* the order the tables list them, so that two states with the same tables,
\* columns and sharing are one state
ColumnOrder(tbls) ==
    Flatten([t \in 1..MaxTables |-> [i \in 1..Len(tbls[t].cols) |-> tbls[t].cols[i].col]])

FirstAt(order, c) == CHOOSE i \in 1..Len(order) : order[i] = c /\ \A j \in 1..(i - 1) : order[j] # c

Rank(order, c) == Cardinality({order[j] : j \in 1..FirstAt(order, c)})

Renumbered(tbls) ==
    [t \in DOMAIN tbls |->
        [id |-> tbls[t].id,
         cols |-> [i \in 1..Len(tbls[t].cols) |->
                     [name |-> tbls[t].cols[i].name,
                      col |-> Rank(ColumnOrder(tbls), tbls[t].cols[i].col)]]]]

\* The new heap and tables are stored, after the finalisers have run
Store(tbls, h) ==
    LET g == Collect(tbls, h)
        order == ColumnOrder(tbls)
    IN  /\ tables' = Renumbered(tbls)
        /\ columns' = [n \in {Rank(order, c) : c \in DOMAIN g.columns} |->
                          g.columns[CHOOSE c \in DOMAIN g.columns : Rank(order, c) = n]]
        /\ pages' = g.pages
        /\ files' = g.files
        /\ nextPageId' = g.next

\* base.py:206-216  Table.__init__: the pid directory is made when missing and
\* registered, the table takes the next id
TableInit ==
    /\ root' = TRUE
    /\ registry' = registry \cup {PidDir}
    /\ nextTableId' = nextTableId + 1

NoTableInit == UNCHANGED <<root, registry, nextTableId>>

HeapUnchanged == UNCHANGED <<tables, columns, pages, files, nextPageId>>

\* Table(): a new, empty Table
NewTable ==
    /\ ~exited
    /\ CanConstruct(Heap, nextPageId)
    /\ TableInit
    /\ Store([tables EXCEPT ![NewHandle] = [id |-> nextTableId, cols |-> <<>>]], Heap)
    /\ last' = Call("Table", NewHandle, <<>>, Result("table", NewHandle))
    /\ UNCHANGED <<PAGE_SIZE, exited, archives>>

\* base.py:245-253  Table.__setitem__: a new Column with the values, which
\* takes the place of the Column of that name
SetItem(t, name, value, lim) ==
    /\ ~exited
    /\ Live(t)
    /\ LET c == NewColumnId(Heap)
           h == extend(NewColumn(Heap, c), c, value, PAGE_SIZE)
       IN  /\ h.next - 1 <= lim
           /\ Store([tables EXCEPT ![t].cols = DictSet(@, name, c)], h)
    /\ last' = Call("setitem", t, name, Result("None", <<>>))
    /\ NoTableInit
    /\ UNCHANGED <<PAGE_SIZE, exited, archives>>

\* t[name].extend(value): base.py:111-114 on the Column a Table holds
Extend(t, name, value, lim) ==
    /\ ~exited
    /\ Live(t)
    /\ HasName(tables[t].cols, name)
    /\ LET c == ColOf(tables[t].cols, name)
           h == extend(Heap, c, value, PAGE_SIZE)
       IN  /\ h.next - 1 <= lim
           /\ Store(tables, h)
           /\ last' = Call("extend", t, <<name, value>>, Result("column", c))
    /\ NoTableInit
    /\ UNCHANGED <<PAGE_SIZE, exited, archives>>

\* del t: the program drops its reference to the Table.  The call record
\* holds the pages the Table listed and those whose files were removed
\* (the "Page deleted" log lines).
Drop(t) ==
    /\ ~exited
    /\ Live(t)
    /\ LET tbls == [tables EXCEPT ![t] = NoTable]
       IN  /\ Store(tbls, Heap)
           /\ last' = Call("del", t, RefPages([x \in {t} |-> tables[t]], columns),
                           Result("deleted", Finalised(tbls, Heap)))
    /\ NoTableInit
    /\ UNCHANGED <<PAGE_SIZE, exited, archives>>

\* Config.PAGE_SIZE = ps
SetPageSize(ps) ==
    /\ ~exited
    /\ ps # PAGE_SIZE
    /\ PAGE_SIZE' = ps
    /\ last' = Call("PAGE_SIZE", 0, ps, Result("None", <<>>))
    /\ NoTableInit
    /\ HeapUnchanged
    /\ UNCHANGED <<exited, archives>>

\* base.py:27-34  shutdown, the atexit hook: every registered path that
\* holds the pid is removed with all that is in it
Shutdown ==
    /\ ~exited
    /\ exited' = TRUE
    /\ root' = IF PidDir \in registry THEN FALSE ELSE root
    /\ files' = IF PidDir \in registry THEN NoFiles ELSE files
    /\ last' = Call("shutdown", 0, <<>>, Result("None", <<>>))
    /\ UNCHANGED <<PAGE_SIZE, tables, columns, pages, registry, nextPageId,
                   nextTableId, archives>>

\* ------------------------------------------------------ Table.__getitem__
\* The keys of one call, by type: the code sorts them by type itself
\* (base.py:274, 278, 284)
Key(names, ints, slices) == [names |-> names, ints |-> ints, slices |-> slices]

KeyLen(key) == Len(key.names) + Len(key.ints) + Len(key.slices)

\* base.py:274-276: a lone integer i is replaced by slice(i)
KeySlices(key) ==
    IF Len(key.ints) = 1 /\ KeyLen(key) = 1
    THEN <<Slice(None, Some(key.ints[1]), None)>>
    ELSE key.slices

\* base.py:278-279
KeyColumnNames(cols, key) == IF key.names = <<>> THEN ColNames(cols) ELSE key.names

\* base.py:294-297: the row as a tuple, one Column.__getitem__ per column
RowTuple(h, cols, column_names, row_no) ==
    LET slc == Slice(Some(row_no), Some(row_no + 1), None)
        got == [i \in 1..Len(column_names) |-> ColumnGetItem(h, ColOf(cols, column_names[i]), slc)]
    IN  IF \E i \in 1..Len(got) : got[i].kind # "array"
        THEN Result("UnboundLocalError", <<>>)
        ELSE Result("tuple", [i \in 1..Len(got) |-> got[i].val[1]])

\* base.py:311-317: what getpages gave is attached to the new Column, a whole
\* page as it is, an array through extend
RECURSIVE AttachItems(_, _, _, _)
AttachItems(h, c, items, page_size) ==
    IF items = <<>> THEN h
    ELSE AttachItems(IF Head(items).kind = "page"
                     THEN extend_from_pages(h, c, Head(items).id)
                     ELSE extend(h, c, Head(items).val, page_size),
                     c, Tail(items), page_size)

\* base.py:306-322: one new Column per selected name, set on the new Table
RECURSIVE SliceColumns(_, _, _, _, _, _)
SliceColumns(h, cols, column_names, slc, page_size, out) ==
    IF column_names = <<>> THEN [heap |-> h, cols |-> out]
    ELSE LET name == Head(column_names)
             c == NewColumnId(h)
             h1 == AttachItems(NewColumn(h, c), c, getpages(h, ColOf(cols, name), slc), page_size)
         IN  SliceColumns(h1, cols, Tail(column_names), slc, page_size, DictSet(out, name, c))

\* base.py:300-303: the new Table holds the very Column objects
RECURSIVE LinkColumns(_, _, _)
LinkColumns(cols, column_names, out) ==
    IF column_names = <<>> THEN out
    ELSE LinkColumns(cols, Tail(column_names),
                     DictSet(out, Head(column_names), ColOf(cols, Head(column_names))))

\* base.py:255-324: the call returns a value and changes nothing
GetItemValue(t, key, res) ==
    /\ last' = Call("getitem", t, key, res)
    /\ NoTableInit
    /\ HeapUnchanged

\* base.py:299-324: the call returns a new Table
GetItemTable(t, key, h, cols, lim) ==
    /\ CanConstruct(h, lim)
    /\ TableInit
    /\ Store([tables EXCEPT ![NewHandle] = [id |-> nextTableId, cols |-> cols]], h)
    /\ last' = Call("getitem", t, key, Result("table", NewHandle))

\* base.py:255-324  Table.__getitem__.  A Column or an array the call
\* returns is not kept by the program.
GetItem(t, key, lim) ==
    /\ ~exited
    /\ Live(t)
    /\ UNCHANGED <<PAGE_SIZE, exited, archives>>
    /\ LET cols == tables[t].cols
           slices == KeySlices(key)
           column_names == KeyColumnNames(cols, key)
       IN  IF \E i \in 1..Len(column_names) : ~HasName(cols, column_names[i])
           THEN GetItemValue(t, key, Result("KeyError", <<>>))
           ELSE IF slices = <<>> /\ cols = <<>>
           THEN GetItemValue(t, key, Result("ValueError", <<>>))
           ELSE LET slc == IF slices = <<>>
                           THEN Slice(Some(0), Some(TableLen(Heap, cols)), None)
                           ELSE slices[1]
                IN  IF Len(column_names) = 1
                    THEN GetItemValue(t, key,
                            IF slices # <<>>
                            THEN ColumnGetItem(Heap, ColOf(cols, column_names[1]), slc)
                            ELSE Result("column", ColOf(cols, column_names[1])))
                    ELSE IF Len(key.ints) = 1
                    THEN GetItemValue(t, key, RowTuple(Heap, cols, column_names, key.ints[1]))
                    ELSE IF slices = <<>>
                    THEN GetItemTable(t, key, Heap, LinkColumns(cols, column_names, <<>>), lim)
                    ELSE LET new == SliceColumns(Heap, cols, column_names, slc, PAGE_SIZE, <<>>)
                         IN  GetItemTable(t, key, new.heap, new.cols, lim)

\* base.py:329-348  Table.__eq__ with another Table
TableEq(h, a, b) ==
    IF a = b THEN Result("bool", TRUE)
    ELSE IF tables[a].cols = <<>> \/ tables[b].cols = <<>> THEN Result("ValueError", <<>>)
    ELSE IF TableLen(h, tables[a].cols) # TableLen(h, tables[b].cols) THEN Result("bool", FALSE)
    ELSE IF TableLen(h, tables[a].cols) = 0 THEN Result("bool", TRUE)
    ELSE IF SeqRange(ColNames(tables[a].cols)) # SeqRange(ColNames(tables[b].cols))
    THEN Result("bool", FALSE)
    ELSE Result("bool", \A i \in 1..Len(tables[a].cols) :
                    ColumnEq(h, tables[a].cols[i].col,
                             ColOf(tables[b].cols, tables[a].cols[i].name)))

\* a == b
Eq(a, b) ==
    /\ ~exited
    /\ Live(a)
    /\ Live(b)
    /\ last' = Call("eq", a, b, TableEq(Heap, a, b))
    /\ NoTableInit
    /\ HeapUnchanged
    /\ UNCHANGED <<PAGE_SIZE, exited, archives>>

\* --------------------------------------------------------------- save/load
Path(stem, suffix) == [stem |-> stem, suffix |-> suffix]

\* The manifest were yaml to sort its keys: the columns by name
ManifestSorted(h, cols) ==
    LET sorted == SelectSeq(cols, LAMBDA x : x.name = "A") \o SelectSeq(cols, LAMBDA x : x.name # "A")
    IN  [i \in 1..Len(sorted) |->
            [name |-> sorted[i].name,
             pages |-> h.columns[sorted[i].col],
             length |-> [k \in 1..Len(h.columns[sorted[i].col]) |-> h.pages[h.columns[sorted[i].col][k]]],
             types |-> [k \in 1..Len(h.columns[sorted[i].col]) |-> 0]]]

\* base.py:380-389: the manifest table.yml
Manifest(h, cols) ==
    [i \in 1..Len(cols) |->
        [name |-> cols[i].name,
         pages |-> h.columns[cols[i].col],
         length |-> [k \in 1..Len(h.columns[cols[i].col]) |-> h.pages[h.columns[cols[i].col][k]]],
         types |-> [k \in 1..Len(h.columns[cols[i].col]) |-> 0]]]

\* base.py:396-399: one entry per page, named as the page file, read from
\* the page file
Entries(h, cols) ==
    [p \in UNION {SeqRange(h.columns[cols[i].col]) : i \in 1..Len(cols)} |-> h.files[p]]

\* base.py:393: zipfile.ZipFile(path, "w") makes the file, and truncates the
\* one that is there
WriteArchive(path, arc) ==
    archives' = [p \in DOMAIN archives \cup {path} |-> IF p = path THEN arc ELSE archives[p]]

\* base.py:350-401  Table.save.  A Path has no +=, so a path that does not
\* end in .tpz raises TypeError.
Save(t, path) ==
    /\ ~exited
    /\ Live(t)
    /\ IF path.suffix # ".tpz"
       THEN /\ last' = Call("save", t, path, Result("TypeError", <<>>))
            /\ UNCHANGED archives
       ELSE /\ WriteArchive(path, [columns |-> Manifest(Heap, tables[t].cols),
                                   entries |-> Entries(Heap, tables[t].cols)])
            /\ last' = Call("save", t, path, Result("None", <<>>))
    /\ NoTableInit
    /\ HeapUnchanged
    /\ UNCHANGED <<PAGE_SIZE, exited>>

\* base.py:420-423: every page of the archive is given to Column.extend
RECURSIVE LoadPages(_, _, _, _, _)
LoadPages(h, c, arc, names, page_size) ==
    IF names = <<>> THEN h
    ELSE LoadPages(extend(h, c, arc.entries[Head(names)], page_size),
                   c, arc, Tail(names), page_size)

\* base.py:418-424: one new Column per column of the manifest
RECURSIVE LoadColumns(_, _, _, _, _)
LoadColumns(h, arc, manifest, page_size, out) ==
    IF manifest = <<>> THEN [heap |-> h, cols |-> out]
    ELSE LET c == NewColumnId(h)
             h1 == LoadPages(NewColumn(h, c), c, arc, Head(manifest).pages, page_size)
         IN  LoadColumns(h1, arc, Tail(manifest), page_size,
                         DictSet(out, Head(manifest).name, c))

\* base.py:403-425  Table.load
Load(path, lim) ==
    /\ ~exited
    /\ UNCHANGED <<PAGE_SIZE, exited, archives>>
    /\ IF path \notin DOMAIN archives
       THEN /\ last' = Call("load", 0, path, Result("FileNotFoundError", <<>>))
            /\ NoTableInit
            /\ HeapUnchanged
       ELSE LET new == LoadColumns(Heap, archives[path], archives[path].columns, PAGE_SIZE, <<>>)
            IN  /\ CanConstruct(new.heap, lim)
                /\ TableInit
                /\ Store([tables EXCEPT ![NewHandle] = [id |-> nextTableId, cols |-> new.cols]],
                         new.heap)
                /\ last' = Call("load", 0, path, Result("table", NewHandle))

\* ------------------------------------------------------------- intercept
\* A call of intercept(A, B)
Intercept(A, B) ==
    /\ last' = Call("intercept", 0, <<A, B>>, intercept(A, B))
    /\ UNCHANGED <<PAGE_SIZE, tables, columns, pages, files, root, registry, exited,
                   nextPageId, nextTableId, archives>>

\* ---------------------------------------------------- programs to start from
\* A program that has built tables: each table is a list of columns, each
\* column a name and the arrays its pages were written from, in the order
\* the program wrote them (Table(), then per column __setitem__ and extend,
\* under the PAGE_SIZE of the moment).
Col(name, chunks) == [name |-> name, chunks |-> chunks]

RECURSIVE BuildCols(_, _, _)
BuildCols(h, cs, out) ==
    IF cs = <<>> THEN [heap |-> h, cols |-> out]
    ELSE LET c == NewColumnId(h)
         IN  BuildCols(AddPages(NewColumn(h, c), c, Head(cs).chunks), Tail(cs),
                       DictSet(out, Head(cs).name, c))

RECURSIVE BuildTables(_, _, _)
BuildTables(h, ts, out) ==
    IF ts = <<>> THEN [heap |-> h, tables |-> out]
    ELSE LET b == BuildCols(h, Head(ts), <<>>)
         IN  BuildTables(b.heap, Tail(ts), Append(out, [id |-> Len(out), cols |-> b.cols]))

EmptyHeap == [columns |-> NoFiles, pages |-> NoFiles, files |-> NoFiles, next |-> 1]

Started(ts, page_size) ==
    LET b == BuildTables(EmptyHeap, ts, <<>>)
    IN  /\ PAGE_SIZE = page_size
        /\ tables = [t \in Handles |-> IF t <= Len(ts) THEN b.tables[t] ELSE NoTable]
        /\ columns = b.heap.columns
        /\ pages = b.heap.pages
        /\ files = b.heap.files
        /\ root = (ts # <<>>)
        /\ registry = IF ts # <<>> THEN {PidDir} ELSE {}
        /\ exited = FALSE
        /\ nextPageId = b.heap.next
        /\ nextTableId = Len(ts)
        /\ archives = NoFiles
        /\ last = Call("start", 0, <<>>, Result("None", <<>>))

Iota(n) == [i \in 1..n |-> i]

\* The page lengths of a column: every list of lengths that sums to at most
\* MaxLen
Layouts ==
    {l \in UNION {[1..k -> 1..MaxLen] : k \in 0..MaxLen} : SumSeq(l) <= MaxLen}

RECURSIVE Chunks(_, _)
Chunks(data, layout) ==
    IF layout = <<>> THEN <<>>
    ELSE <<SubSeq(data, 1, Head(layout))>>
             \o Chunks(SubSeq(data, Head(layout) + 1, Len(data)), Tail(layout))

PageSizes == 1..MaxPageSize

TimesTen(a) == [i \in DOMAIN a |-> 10 * a[i]]

\* Table(columns={...}) under a PAGE_SIZE: column A alone, or A and B in
\* either order, A holding 1, 2, .. and B holding 10, 20, ..
Built(arrays, page_size) ==
    {<<Col("A", _paginate(a, page_size))>> : a \in arrays}
        \cup {<<Col("A", _paginate(a, page_size)), Col("B", _paginate(TimesTen(b), page_size))>> :
                a \in arrays, b \in arrays}
        \cup {<<Col("B", _paginate(TimesTen(b), page_size)), Col("A", _paginate(a, page_size))>> :
                a \in arrays, b \in arrays}

\* ------------------------------------------------------------ the lifecycle
\* The arrays given to __setitem__
Arrays == {Iota(n) : n \in 0..MaxArr}

LifeKeys ==
    {Key(<<"A", "B">>, <<>>, <<>>),
     Key(<<>>, <<>>, <<Slice(None, Some(1), None)>>),
     Key(<<>>, <<>>, <<Slice(Some(1), None, None)>>)}

\* A program that has set Config.PAGE_SIZE and built nothing yet
Init == \E ps \in PageSizes : Started(<<>>, ps)

\* Tables are built, assigned to, selected from, sliced and dropped
Next ==
    \/ NewTable
    \/ \E t \in Handles, name \in Names, value \in Arrays : SetItem(t, name, value, MaxPageId)
    \/ \E t \in Handles, key \in LifeKeys : GetItem(t, key, MaxPageId)
    \/ \E t \in Handles : Drop(t)
    \/ Shutdown

Spec == Init /\ [][Next]_vars

\* ------------------------------------------------------------ save and load
Paths == {Path("a", ".tpz"), Path("b", ".txt")}

\* A second table of the program: one column, one page
Others == {<<Col("A", <<TimesTen(a)>>)>> : a \in Arrays \ {<<>>}}

\* A program that has built one table, or two, and is about to save
InitArchive ==
    \E t \in {<<>>} \cup UNION {Built(Arrays, ps) : ps \in PageSizes} :
        \/ Started(<<t>>, DefaultPageSize)
        \/ \E o \in Others : Started(<<t, o>>, DefaultPageSize)

NextArchive ==
    \/ \E t \in Handles, path \in Paths : Save(t, path)
    \/ \E path \in Paths : Load(path, 4 * MaxArr)
    \/ \E t \in Handles : Drop(t)
    \/ \E ps \in PageSizes : SetPageSize(ps)

SpecArchive == InitArchive /\ [][NextArchive]_vars

\* ------------------------------------------------------------------ append
\* A table with an empty column A, extended again and again
AppendArrays == {Iota(n) : n \in 0..MaxLen}

InitAppend == Started(<<<<Col("A", <<>>)>>>>, DefaultPageSize)

NextAppend ==
    \/ \E value \in AppendArrays : Extend(1, "A", value, MaxPageId)
    \/ \E ps \in PageSizes : SetPageSize(ps)

SpecAppend == InitAppend /\ [][NextAppend]_vars

\* ------------------------------------------------------- Table.__getitem__
\* A table of one or two columns, in every page layout
QueryTables ==
    {<<Col("A", Chunks(Iota(SumSeq(l)), l))>> : l \in Layouts}
        \cup {<<Col("A", Chunks(Iota(SumSeq(l)), l)), Col("B", Chunks(TimesTen(Iota(SumSeq(m))), m))>> :
                l \in Layouts, m \in Layouts}

Indexes == {None} \cup {Some(i) : i \in -MaxLen..MaxLen}

Slices == {Slice(a, b, c) : a \in Indexes, b \in Indexes, c \in {None, Some(1), Some(2), Some(-1)}}

QueryKeys ==
    {Key(<<>>, <<>>, <<s>>) : s \in Slices}
        \cup {Key(<<>>, <<i>>, <<>>) : i \in -1..MaxLen}
        \cup {Key(ns, <<>>, <<s>>) : ns \in {<<"B", "A">>, <<"A", "A">>}, s \in Slices}
        \cup {Key(ns, <<>>, <<>>) : ns \in {<<"A">>, <<"B", "A">>, <<"A", "C">>}}
        \cup {Key(<<"A", "B">>, <<i>>, <<>>) : i \in 0..MaxLen}

InitQuery == \E ps \in PageSizes, t \in QueryTables : Started(<<t>>, ps)

\* One call on the table the program built
NextQuery == last.op = "start" /\ \E key \in QueryKeys : GetItem(1, key, 4 * MaxLen)

SpecQuery == InitQuery /\ [][NextQuery]_vars

\* ---------------------------------------------------------- Table.__eq__
EqArrays == Arrays \cup {[i \in 1..n |-> i + 1] : n \in 1..MaxArr}

EqTables ==
    {<<>>}
        \cup UNION {{<<Col("A", _paginate(a, ps))>>, <<Col("B", _paginate(a, ps))>>} :
                        a \in EqArrays, ps \in PageSizes}
        \cup UNION {{<<Col("A", _paginate(a, ps)), Col("B", _paginate(b, ps))>>,
                     <<Col("B", _paginate(b, ps)), Col("A", _paginate(a, ps))>>} :
                        a \in EqArrays, b \in EqArrays, ps \in PageSizes}

InitEq == \E x \in EqTables, y \in EqTables : Started(<<x, y>>, DefaultPageSize)

\* One comparison of the tables the program built
NextEq == last.op = "start" /\ \E a \in Handles, b \in Handles : Eq(a, b)

SpecEq == InitEq /\ [][NextEq]_vars

\* ------------------------------------------------- intercept on all ranges
Steps == (-MaxStep..MaxStep) \ {0}

Ranges == {Range(a, b, s) : a \in -1..MaxRange, b \in -1..MaxRange, s \in Steps}

\* One call in a program that has done nothing else
NextIntercept == last.op = "start" /\ \E A \in Ranges, B \in Ranges : Intercept(A, B)

InitIntercept == Started(<<>>, DefaultPageSize)

SpecIntercept == InitIntercept /\ [][NextIntercept]_vars

\* ================================================================= claims
\* --------------------------------------------------------------------- C1
\* C1: for every pair of ranges A and B, intercept(A, B) returns a range
\* whose set of elements is set(A) \cap set(B).
C1_InterceptIsIntersection ==
    last.op = "intercept" =>
        /\ last.res.kind = "range"
        /\ RangeSet(last.res.val) = RangeSet(last.key[1]) \cap RangeSet(last.key[2])

\* --------------------------------------------------------------------- C2
IsSliceKey(key) == key.names = <<>> /\ key.ints = <<>> /\ Len(key.slices) = 1

\* C2: for every table t of one or more columns and every slice s, t[s] is a
\* Table whose columns are those of t, each holding that column's values
\* sliced by s, in the same order.
C2_SliceCoherence ==
    (last.op = "getitem" /\ IsSliceKey(last.key)) =>
        /\ last.res.kind = "table"
        /\ ColNames(tables[last.res.val].cols) = ColNames(tables[last.t].cols)
        /\ \A i \in 1..Len(tables[last.t].cols) :
              ColumnData(Heap, tables[last.res.val].cols[i].col)
                  = PySlice(ColumnData(Heap, tables[last.t].cols[i].col), last.key.slices[1])

\* --------------------------------------------------------------------- C4
\* The offsets at which the pages of a column begin and end
Boundaries(h, c) ==
    {SumSeq([k \in 1..j |-> h.pages[h.columns[c][k]]]) : j \in 0..Len(h.columns[c])}

IsUnitStep(slc) == slc.step = None \/ slc.step = Some(1)

\* The slice starts and stops on a page boundary of column c
Aligned(h, c, slc) ==
    /\ Indices(slc, ColumnLen(h, c)).start \in Boundaries(h, c)
    /\ Indices(slc, ColumnLen(h, c)).stop \in Boundaries(h, c)

\* Some page of column c holds a row the slice selects and a row it does not
PartlyCovered(h, c, slc) ==
    LET sel == RangeSet(Indices(slc, ColumnLen(h, c)))
    IN  \E j \in 1..Len(h.columns[c]) :
            LET from == SumSeq([k \in 1..(j - 1) |-> h.pages[h.columns[c][k]]])
                rows == from..(from + h.pages[h.columns[c][j]] - 1)
            IN  rows \cap sel # {} /\ rows \ sel # {}

SelectedColumns(cols, key) ==
    {ColOf(cols, KeyColumnNames(cols, key)[i]) : i \in 1..Len(KeyColumnNames(cols, key))}

TablePages(tb, cols) == UNION {SeqRange(cols[c]) : c \in ColsOfTable(tb)}

\* A call t[.., s] with a unit-step slice s
UnitSlicing(call) ==
    /\ call.op = "getitem"
    /\ call.key.ints = <<>>
    /\ Len(call.key.slices) = 1
    /\ IsUnitStep(call.key.slices[1])
    /\ \A i \in 1..Len(call.key.names) : HasName(tables[call.t].cols, call.key.names[i])

\* C4: a unit-step slice that starts and stops on page boundaries of every
\* selected column writes no page file, and every page of the Table it gives
\* is a page of t; a unit-step slice writes a page file only when some page
\* of a selected column is covered in part.
C4_PageSharing ==
    [][UnitSlicing(last') =>
          LET slc == last'.key.slices[1]
              sel == SelectedColumns(tables[last'.t].cols, last'.key)
          IN  /\ (\A c \in sel : Aligned(Heap, c, slc)) =>
                    /\ files' = files
                    /\ nextPageId' = nextPageId
                    /\ last'.res.kind = "table" =>
                          TablePages(tables'[last'.res.val], columns')
                              \subseteq TablePages(tables[last'.t], columns)
              /\ (\A c \in sel : ~PartlyCovered(Heap, c, slc)) =>
                    /\ files' = files
                    /\ nextPageId' = nextPageId]_vars

\* A slice from a page boundary on has shared a page of a column of several
\* pages
C4_Witness ==
    /\ UnitSlicing(last)
    /\ IsSliceKey(last.key)
    /\ last.res.kind = "table"
    /\ last.key.slices[1].start \notin {None, Some(0)}
    /\ \A c \in ColsOfTable(tables[last.t]) : Aligned(Heap, c, last.key.slices[1])
    /\ TablePages(tables[last.res.val], columns) # {}
    /\ TablePages(tables[last.res.val], columns) # TablePages(tables[last.t], columns)

\* --------------------------------------------------------------------- C8
\* C8: for every table t of one or more columns and every i with
\* 0 <= i < len(t), t[i] is the tuple of the values at row i, one per column
\* in insertion order.
C8_RowAtIndex ==
    (/\ last.op = "getitem"
     /\ last.key.names = <<>>
     /\ last.key.slices = <<>>
     /\ Len(last.key.ints) = 1
     /\ last.key.ints[1] >= 0
     /\ last.key.ints[1] < TableLen(Heap, tables[last.t].cols)) =>
        /\ last.res.kind = "tuple"
        /\ Len(last.res.val) = Len(tables[last.t].cols)
        /\ \A i \in 1..Len(tables[last.t].cols) :
              last.key.ints[1] < ColumnLen(Heap, tables[last.t].cols[i].col) =>
                  last.res.val[i] = ColumnData(Heap, tables[last.t].cols[i].col)[last.key.ints[1] + 1]

\* --------------------------------------------------------------------- C9
RowCount(h, cols) == IF cols = <<>> THEN 0 ELSE TableLen(h, cols)

\* C9: a == b holds exactly when the tables have the same set of column
\* names, the same length and equal values in every column of the same name.
C9_TableEquality ==
    last.op = "eq" =>
        /\ last.res.kind = "bool"
        /\ last.res.val =
              (/\ SeqRange(ColNames(tables[last.t].cols)) = SeqRange(ColNames(tables[last.key].cols))
               /\ RowCount(Heap, tables[last.t].cols) = RowCount(Heap, tables[last.key].cols)
               /\ \A i \in 1..Len(tables[last.t].cols) :
                     ColumnData(Heap, tables[last.t].cols[i].col)
                         = ColumnData(Heap, ColOf(tables[last.key].cols, tables[last.t].cols[i].name)))

\* --------------------------------------------------------------------- C3
\* The table an archive holds, read from its manifest and its entries
ArchiveData(arc) ==
    [i \in 1..Len(arc.columns) |->
        [name |-> arc.columns[i].name,
         data |-> Flatten([k \in 1..Len(arc.columns[i].pages) |->
                              arc.entries[arc.columns[i].pages[k]]])]]

\* C3: the archive t.save(path) writes holds the column names of t in their
\* order and the values of each, and the Table that Table.load(path) gives
\* holds the names and values of the archive, each column as long as its
\* values, whatever the pages of t and whatever PAGE_SIZE is at load time.
C3_RoundTrip ==
    /\ (last.op = "save" /\ last.res.kind = "None") =>
           ArchiveData(archives[last.key]) = TableData(Heap, tables[last.t].cols)
    /\ (last.op = "load" /\ last.res.kind = "table") =>
           /\ TableData(Heap, tables[last.res.val].cols) = ArchiveData(archives[last.key])
           /\ \A i \in 1..Len(tables[last.res.val].cols) :
                 ColumnLen(Heap, tables[last.res.val].cols[i].col)
                     = Len(ColumnData(Heap, tables[last.res.val].cols[i].col))

\* A table of columns B and A, saved in pages of two values, has been loaded
\* under a PAGE_SIZE of one and is paged otherwise than the table it equals
C3_Witness ==
    /\ last.op = "load"
    /\ last.res.kind = "table"
    /\ PAGE_SIZE = 1
    /\ ColNames(tables[last.res.val].cols) = <<"B", "A">>
    /\ \E t \in Handles :
          /\ t # last.res.val
          /\ Live(t)
          /\ TableData(Heap, tables[t].cols) = TableData(Heap, tables[last.res.val].cols)
          /\ Len(columns[tables[t].cols[1].col]) = 1
          /\ Len(columns[tables[last.res.val].cols[1].col]) = 2

\* --------------------------------------------------------------------- C5
\* C5: while the process runs, the file of every page that a column of a
\* live Table lists is on disk.
C5_LivePagesOnDisk ==
    ~exited => RefPages(tables, columns) \subseteq DOMAIN files

\* A Table has been dropped while another Table listed one of its pages, and
\* the page is on disk
C5_Witness ==
    /\ last.op = "del"
    /\ ~exited
    /\ last.key \ last.res.val # {}
    /\ last.key \ last.res.val \subseteq RefPages(tables, columns) \cap DOMAIN files

\* --------------------------------------------------------------------- C6
\* C6: dropping a Table removes the files of the pages no other Table lists,
\* the workspace holds no file but those of the pages live Tables list (no
\* file of a Table itself), and the workspace root is there from the first
\* Table on until the process shuts down.
C6_Cleanup ==
    /\ DOMAIN files \subseteq RefPages(tables, columns)
    /\ last.op = "del" =>
          /\ last.res.val = last.key \ RefPages(tables, columns)
          /\ last.res.val \cap DOMAIN files = {}
    /\ (registry # {} /\ ~exited) => root
    /\ exited => ~root

\* The last Table has been dropped: its pages are gone, the root is there
C6_Witness ==
    /\ last.op = "del"
    /\ last.res.val # {}
    /\ \A t \in Handles : ~Live(t)
    /\ files = NoFiles
    /\ root
    /\ ~exited

\* --------------------------------------------------------------------- C7
\* C7: t.save(path) on a path where a file is fails, and leaves the file as
\* it was.
C7_SaveRefusesOverwrite ==
    [][(last'.op = "save" /\ last'.key \in DOMAIN archives) =>
          /\ last'.res.kind # "None"
          /\ archives' = archives]_vars

\* -------------------------------------------------------------------- C10
\* C10: appending an array of n values adds ceil(n / PAGE_SIZE) pages after
\* those of the column, each of PAGE_SIZE values but the last, which holds
\* the rest; the pages added hold the array, the pages that were there are
\* as they were, and the column is n longer.
C10_AppendPagination ==
    [][last'.op = "extend" =>
          LET c == ColOf(tables[last'.t].cols, last'.key[1])
              value == last'.key[2]
              n == Len(value)
              k == CeilDiv(n, PAGE_SIZE)
              old == columns[c]
              new == columns'[c]
          IN  /\ Len(new) = Len(old) + k
              /\ SubSeq(new, 1, Len(old)) = old
              /\ \A j \in 1..Len(old) :
                    /\ pages'[old[j]] = pages[old[j]]
                    /\ files'[old[j]] = files[old[j]]
              /\ \A j \in 1..k :
                    /\ new[Len(old) + j] \notin DOMAIN files
                    /\ pages'[new[Len(old) + j]] = Len(files'[new[Len(old) + j]])
                    /\ Len(files'[new[Len(old) + j]])
                          = IF j < k THEN PAGE_SIZE ELSE n - (k - 1) * PAGE_SIZE
              /\ Flatten([j \in 1..k |-> files'[new[Len(old) + j]]]) = value
              /\ ColumnLen(Heap', c) = ColumnLen(Heap, c) + n]_vars

\* Three values have been appended under a PAGE_SIZE of two to a column whose
\* one page held one value: the short page is followed by a full one
C10_Witness ==
    /\ last.op = "extend"
    /\ Len(last.key[2]) = 3
    /\ PAGE_SIZE = 2
    /\ Len(columns[1]) = 3
    /\ pages[columns[1][1]] = 1
    /\ pages[columns[1][2]] = 2
    /\ pages[columns[1][3]] = 1

\* ------------------------------------------------------------------ ingest
\* A text file as the reader meets it: its records in file order, the first
\* one the header.  A record holds the fields the splitter gives for it and
\* the number of newlines that stand inside its quoted fields: it takes
\* breaks + 1 lines of the file.
Record(fields, breaks) == [fields |-> fields, breaks |-> breaks]

\* import_utils.py:369-372  the scan: one count for every line the file
\* object yields
newlines(records) == SumSeq([i \in 1..Len(records) |-> 1 + records[i].breaks])

\* import_utils.py:396-405  the fields of the first line
HeaderFields(records) == Head(records).fields

\* utils.py:24-35  unique_name, the suffix counted up from i
RECURSIVE UniqueFrom(_, _, _)
UniqueFrom(wanted_name, set_of_names, i) ==
    LET name == wanted_name \o "_" \o ToString(i)
    IN  IF name \in set_of_names THEN UniqueFrom(wanted_name, set_of_names, i + 1) ELSE name

unique_name(wanted_name, set_of_names) ==
    IF wanted_name \in set_of_names THEN UniqueFrom(wanted_name, set_of_names, 1) ELSE wanted_name

\* import_utils.py:407-412  duplicate names in the header are made unique
RECURSIVE new_fields(_, _)
new_fields(fields, out) ==
    IF fields = <<>> THEN out
    ELSE new_fields(Tail(fields), Append(out, unique_name(Head(fields), SeqRange(out))))

\* import_utils.py:437-448  the line windows planned for one column: start
\* and end begin after the header, whatever the caller's start and limit
\* are, and one window is made for every end the range yields
Windows(first_row_has_headers, lines, page_size) ==
    LET first == IF first_row_has_headers THEN 1 ELSE 0
        ends == RangeSeq(Range(first + page_size, lines + 1, page_size))
    IN  [k \in 1..Len(ends) |->
            [start |-> IF k = 1 THEN first ELSE ends[k - 1], end |-> Min(ends[k], lines)]]

\* import_utils.py:312-435  text_reader up to its plan.  The plan keeps its
\* sub-plans in a dict (432) and appends to it for the first field (435):
\* no call with a line to read gets further.
text_reader(file, cols, first_row_has_headers, start, limit, page_size) ==
    IF file = None THEN Result("FileNotFoundError", <<>>)
    ELSE IF Val(file) = <<>> THEN Result("table", <<>>)
    ELSE IF start < 0 \/ limit <= 0 THEN Result("ValueError", <<>>)
    ELSE IF newlines(Val(file)) <= start + (IF first_row_has_headers THEN 1 ELSE 0)
         THEN (IF cols = None THEN Result("TypeError", <<>>) ELSE Result("table", Val(cols)))
    ELSE IF cols = None THEN Result("TypeError", <<>>)
    ELSE IF new_fields(HeaderFields(Val(file)), <<>>) # <<>> THEN Result("AttributeError", <<>>)
    ELSE Result("table", <<>>)

\* text_reader(T, path, columns, first_row_has_headers, .., start, limit, ..):
\* the whole call.  A Table it returns is the empty T() (321) or the Table of
\* the wanted columns, all empty (386).
TextReader(file, cols, first_row_has_headers, start, limit) ==
    /\ ~exited
    /\ LET r == text_reader(file, cols, first_row_has_headers, start, limit, PAGE_SIZE)
           key == [file |-> file, columns |-> cols, first_row_has_headers |-> first_row_has_headers,
                   start |-> start, limit |-> limit]
       IN  IF r.kind = "table"
           THEN LET b == BuildCols(Heap, [i \in 1..Len(r.val) |-> Col(r.val[i], <<>>)], <<>>)
                IN  /\ FreeHandles # {}
                    /\ TableInit
                    /\ Store([tables EXCEPT ![NewHandle] = [id |-> nextTableId, cols |-> b.cols]], b.heap)
                    /\ last' = Call("text_reader", NewHandle, key, Result("table", NewHandle))
           ELSE /\ NoTableInit
                /\ HeapUnchanged
                /\ last' = Call("text_reader", 0, key, r)
    /\ UNCHANGED <<PAGE_SIZE, exited, archives>>

\* The records of a file of n data rows under a header: row i holds i in
\* column A and 10 * i in column B, and takes breaks[i] + 1 lines
Rows(header, breaks) ==
    <<Record(header, 0)>> \o [i \in 1..Len(breaks) |-> Record(<<i, 10 * i>>, breaks[i])]

Headers == {<<"A">>, <<"A", "B">>, <<"A", "A">>}

\* No file at the path, a file of no bytes, or a header and up to MaxRows
\* rows, any of them with a newline inside a quoted field
IngestFiles ==
    {None, Some(<<>>)}
        \cup {Some(Rows(h, b)) : h \in Headers, b \in UNION {[1..n -> 0..1] : n \in 0..MaxRows}}

IngestColumns == {None, Some(<<>>), Some(<<"A">>), Some(<<"A", "B">>)}

InitIngest == \E ps \in PageSizes : Started(<<>>, ps)

NextIngest ==
    /\ last.op = "start"
    /\ \E file \in IngestFiles, cols \in IngestColumns, first_row_has_headers \in BOOLEAN,
          start \in -1..MaxRows, limit \in 0..MaxRows :
            TextReader(file, cols, first_row_has_headers, start, limit)

SpecIngest == InitIngest /\ [][NextIngest]_vars

\* ------------------------------------------------------- ingest: the claims
\* The call text_reader has just returned from, with arguments it accepts
\* (343-346) for a file that holds a column to read
Imported ==
    /\ last.op = "text_reader"
    /\ last.key.file # None
    /\ Val(last.key.file) # <<>>
    /\ last.key.columns # None
    /\ last.key.start >= 0
    /\ last.key.limit > 0

\* The data rows of the file of the call: the records after the header
DataRows ==
    IF last.key.first_row_has_headers THEN Tail(Val(last.key.file)) ELSE Val(last.key.file)

\* The values of field j in the data rows from..to, null where a row is short
SourceColumn(j, from, to) ==
    [i \in 1..(to - from + 1) |->
        IF j <= Len(DataRows[from + i - 1].fields) THEN DataRows[from + i - 1].fields[j] ELSE None]

\* The whole file is asked for
WholeFile == Imported /\ last.key.start = 0 /\ last.key.limit >= Len(DataRows) /\ Len(DataRows) > 0

\* The Table the call returned
Returned == tables[last.res.val]

\* The Table the call returned has no row
ReturnedEmpty == \A j \in 1..Len(Returned.cols) : ColumnLen(Heap, Returned.cols[j].col) = 0

\* --------------------------------------------------------------------- C11
\* C11: whatever the order the ingest tasks complete in and whatever the pool
\* size, a whole-file import returns a Table with one column per header field
\* that lists the values of that field in source-file order.
C11_IngestOrdering ==
    WholeFile =>
        /\ last.res.kind = "table"
        /\ Len(Returned.cols) = Len(HeaderFields(Val(last.key.file)))
        /\ \A j \in 1..Len(Returned.cols) :
              ColumnData(Heap, Returned.cols[j].col) = SourceColumn(j, 1, Len(DataRows))

\* --------------------------------------------------------------------- C12
\* The sizes of the windows that cover n lines: full pages, then the rest
CoverSizes(n, page_size) ==
    [k \in 1..CeilDiv(n, page_size) |-> Min(page_size, n - (k - 1) * page_size)]

\* C12: a whole-file import of n data lines gives every column
\* ceil(n / PAGE_SIZE) pages, all of PAGE_SIZE lines but the last, which
\* holds the rest: the windows are contiguous, disjoint and cover the data.
C12_PlanCoverage ==
    WholeFile =>
        /\ last.res.kind = "table"
        /\ Returned.cols # <<>>
        /\ \A j \in 1..Len(Returned.cols) :
              LET c == Returned.cols[j].col
              IN  [k \in 1..Len(columns[c]) |-> pages[columns[c][k]]]
                      = CoverSizes(Len(DataRows), PAGE_SIZE)

\* --------------------------------------------------------------------- C13
\* C13: for start >= 0 and limit > 0 the imported Table holds the data rows
\* start .. start + limit - 1 that the file has: at most limit rows,
\* beginning at data row start.
C13_StartLimit ==
    Imported =>
        LET first == last.key.start + 1
            final == Min(last.key.start + last.key.limit, Len(DataRows))
        IN  /\ last.res.kind = "table"
            /\ (final >= first =>
                   /\ Returned.cols # <<>>
                   /\ \A j \in 1..Len(Returned.cols) :
                         ColumnData(Heap, Returned.cols[j].col) = SourceColumn(j, first, final))
            /\ (final < first => ReturnedEmpty)

\* --------------------------------------------------------------------- C15
\* C15: a newline inside a quoted field ends no line, so the scan counts
\* records: the import takes its early return with the empty columns exactly
\* when the file has no data row at or after start.
C15_LogicalLines ==
    Imported =>
        ((last.res.kind = "table" /\ ReturnedEmpty)
            <=> Len(DataRows) <= last.key.start)

\* ------------------------------------------- ingest: execute and consolidate
\* import_utils.py:433-448  the plan as the loops fill it: for every field
\* its name and one task configuration per window, the destinations taken
\* from the page ids in turn
Plan(fields, first_row_has_headers, lines, page_size, next) ==
    LET w == Windows(first_row_has_headers, lines, page_size)
    IN  [ix \in 1..Len(fields) |->
            [name |-> fields[ix],
             pages |-> [k \in 1..Len(w) |->
                          [start |-> w[k].start, end |-> w[k].end, column_index |-> ix,
                           destination |-> next + (ix - 1) * Len(w) + k - 1]]]]

\* import_utils.py:274-288  text_reader_task: the field column_index of the
\* lines start .. end - 1, None where the line is short
TaskValues(records, cfg) ==
    [i \in 1..(cfg.end - cfg.start) |->
        IF cfg.column_index <= Len(records[cfg.start + i].fields)
        THEN records[cfg.start + i].fields[cfg.column_index] ELSE None]

\* import_utils.py:461-469  the tasks are executed: in one process the value
\* Task.execute() returns (None, or the traceback of what the task raised)
\* is dropped; the pool hands the values back and the import raises with
\* those that are not None.  The value is the list of failed tasks.
Execute(tasks, cpu_count, MULTIPROCESSING_ENABLED, failed) ==
    IF cpu_count < 2 \/ ~MULTIPROCESSING_ENABLED THEN <<>>
    ELSE [k \in 1..Cardinality(failed) |->
            CHOOSE t \in failed : Cardinality({u \in failed : u < t}) = k - 1]

\* import_utils.py:476-485  consolidation: a Column per sub-plan that lists
\* the configurations of the sub-plan in plan order.  A configuration stands
\* for the page at its destination: its length is that of its window.
RECURSIVE Consolidate(_, _, _)
Consolidate(h, configs, out) ==
    IF configs = <<>> THEN [heap |-> h, cols |-> out]
    ELSE LET c == NewColumnId(h)
             sub == Head(configs).pages
             ids == {sub[k].destination : k \in 1..Len(sub)}
             name == unique_name(Head(configs).name, {out[i].name : i \in 1..Len(out)})
             h1 == [NewColumn(h, c) EXCEPT
                       !.columns[c] = [k \in 1..Len(sub) |-> sub[k].destination],
                       !.pages = [p \in DOMAIN h.pages \cup ids |->
                                     IF p \in ids
                                     THEN LET k == CHOOSE k \in 1..Len(sub) : sub[k].destination = p
                                          IN  sub[k].end - sub[k].start
                                     ELSE h.pages[p]]]
         IN  Consolidate(h1, Tail(configs), Append(out, [name |-> name, col |-> c]))

\* import_utils.py:450-489  text_reader from its plan on: the tasks of the
\* plan run, those in failed raise and the others save their array, then the
\* Table is put together
ExecuteAndConsolidate(records, first_row_has_headers, cpu_count, MULTIPROCESSING_ENABLED, failed) ==
    /\ ~exited
    /\ LET configs == Plan(new_fields(HeaderFields(records), <<>>), first_row_has_headers,
                           newlines(records), PAGE_SIZE, nextPageId)
           tasks == Flatten([ix \in 1..Len(configs) |-> configs[ix].pages])
           done == {k \in 1..Len(tasks) : k \notin failed}
           saved == [p \in DOMAIN files \cup {tasks[k].destination : k \in done} |->
                        IF p \in DOMAIN files THEN files[p]
                        ELSE TaskValues(records, tasks[CHOOSE k \in done : tasks[k].destination = p])]
           h == [Heap EXCEPT !.files = saved, !.next = nextPageId + Len(tasks)]
           errors == Execute(tasks, cpu_count, MULTIPROCESSING_ENABLED, failed)
           key == [file |-> Some(records), first_row_has_headers |-> first_row_has_headers,
                   cpu_count |-> cpu_count, MULTIPROCESSING_ENABLED |-> MULTIPROCESSING_ENABLED,
                   tasks |-> Len(tasks), failed |-> failed]
       IN  /\ failed \subseteq 1..Len(tasks)
           /\ IF tasks = <<>>
              THEN /\ NoTableInit
                   /\ HeapUnchanged
                   /\ last' = Call("execute", 0, key, Result("ZeroDivisionError", <<>>))
              ELSE IF errors # <<>>
              THEN /\ NoTableInit
                   /\ Store(tables, h)
                   /\ last' = Call("execute", 0, key, Result("Exception", errors))
              ELSE LET b == Consolidate(h, configs, <<>>)
                   IN  /\ FreeHandles # {}
                       /\ TableInit
                       /\ Store([tables EXCEPT ![NewHandle] = [id |-> nextTableId, cols |-> b.cols]],
                                b.heap)
                       /\ last' = Call("execute", NewHandle, key, Result("table", NewHandle))
    /\ UNCHANGED <<PAGE_SIZE, exited, archives>>

\* The files whose lines are records: no newline stands inside a field
PlainFiles == {Rows(h, [i \in 1..n |-> 0]) : h \in Headers, n \in 0..MaxRows}

InitExecute == \E ps \in PageSizes : Started(<<>>, ps)

NextExecute ==
    /\ last.op = "start"
    /\ \E records \in PlainFiles, first_row_has_headers \in BOOLEAN, cpu_count \in 1..MaxCpu,
          MULTIPROCESSING_ENABLED \in BOOLEAN, failed \in SUBSET (1..(2 * MaxRows)) :
            ExecuteAndConsolidate(records, first_row_has_headers, cpu_count,
                                  MULTIPROCESSING_ENABLED, failed)

SpecExecute == InitExecute /\ [][NextExecute]_vars

none_substitute == -1

DataOf(t, name) == t[CHOOSE c \in 1..Len(t) : t[c].name = name].data

\* old/tablite/core.py:523-526  the rank of a value among the distinct values
\* of its column that are not None, counted from the largest when reverse
unique_values(data, v, reverse) ==
    IF v = None THEN none_substitute
    ELSE Cardinality({w \in {Val(u) : u \in SeqRange(data) \ {None}} :
                         IF reverse THEN w > Val(v) ELSE w < Val(v)})

\* old/tablite/core.py:521-528  rank[ix]: one rank per sort key
rank(t, kwargs, ix) ==
    [k \in 1..Len(kwargs) |-> unique_values(DataOf(t, kwargs[k].name), DataOf(t, kwargs[k].name)[ix],
                                            kwargs[k].reverse)]

\* tuple.__lt__
TupleLess(a, b) ==
    \E k \in 1..Len(a) : a[k] < b[k] /\ \A j \in 1..(k - 1) : a[j] = b[j]

\* The order were equal ranks to leave the later row first
new_order_reversed_ties(t, kwargs, i, j) ==
    \/ TupleLess(rank(t, kwargs, i), rank(t, kwargs, j))
    \/ rank(t, kwargs, i) = rank(t, kwargs, j) /\ i > j

\* old/tablite/core.py:530-531  new_order.sort(): (rank, i) before (rank, j)
new_order(t, kwargs, i, j) ==
    \/ TupleLess(rank(t, kwargs, i), rank(t, kwargs, j))
    \/ rank(t, kwargs, i) = rank(t, kwargs, j) /\ i < j

\* old/tablite/core.py:90-95  len(table)
OldLen(t) == IF t = <<>> THEN 0 ELSE Len(t[1].data)

\* old/tablite/core.py:506-535  Table._sort_index (rows counted from 1)
_sort_index(t, kwargs) ==
    LET keys == IF kwargs = <<>> THEN [c \in 1..Len(t) |-> [name |-> t[c].name, reverse |-> FALSE]]
                ELSE kwargs
    IN  [pos \in 1..OldLen(t) |->
            CHOOSE i \in 1..OldLen(t) :
                Cardinality({j \in 1..OldLen(t) : new_order(t, keys, j, i)}) = pos - 1]

\* old/tablite/core.py:537-544  Table.sort: every column takes its values in
\* the order of the sorted index
sort(t, kwargs) ==
    LET sorted_index == _sort_index(t, kwargs)
    IN  [c \in 1..Len(t) |->
            [name |-> t[c].name, data |-> [pos \in 1..OldLen(t) |-> t[c].data[sorted_index[pos]]]]]

\* t.sort(**kwargs): a key that is no column raises ValueError (513-515);
\* the call record holds the table before the call and, as its value, the
\* table after it
Sort(t, kwargs) ==
    /\ ~exited
    /\ last' = Call("sort", 0, [table |-> t, kwargs |-> kwargs],
                    IF \E k \in 1..Len(kwargs) : \A c \in 1..Len(t) : t[c].name # kwargs[k].name
                    THEN Result("ValueError", <<>>)
                    ELSE Result("None", sort(t, kwargs)))
    /\ NoTableInit
    /\ HeapUnchanged
    /\ UNCHANGED <<PAGE_SIZE, exited, archives>>

Cells == {None} \cup {Some(v) : v \in 1..MaxKey}

\* Tables of columns A and B with any cells and a column N that numbers the
\* rows as they were added
SortTables ==
    {<<[name |-> "A", data |-> a], [name |-> "B", data |-> b],
       [name |-> "N", data |-> [i \in 1..n |-> Some(i)]]>> :
        <<n, a, b>> \in UNION {{n} \X [1..n -> Cells] \X [1..n -> Cells] : n \in 0..MaxRows}}

\* Keyword arguments: no key, or one or two of the columns, each ascending
\* or descending, or a name that is no column
SortKeys ==
    {<<>>, <<[name |-> "X", reverse |-> FALSE]>>}
        \cup {<<[name |-> a, reverse |-> r]>> : a \in {"A", "B", "N"}, r \in BOOLEAN}
        \cup {<<[name |-> "A", reverse |-> r], [name |-> "B", reverse |-> s]>> : r \in BOOLEAN, s \in BOOLEAN}
        \cup {<<[name |-> "B", reverse |-> r], [name |-> "A", reverse |-> s]>> : r \in BOOLEAN, s \in BOOLEAN}

InitSort == Started(<<>>, DefaultPageSize)

NextSort == last.op = "start" /\ \E t \in SortTables, kwargs \in SortKeys : Sort(t, kwargs)

SpecSort == InitSort /\ [][NextSort]_vars

\* --------------------------------------------------------------------- C16
Sorted == last.op = "sort" /\ last.res.kind = "None"

\* The keys of the sort: every column when none is named
SortedOn ==
    IF last.key.kwargs = <<>> THEN {last.key.table[c].name : c \in 1..Len(last.key.table)}
    ELSE {last.key.kwargs[k].name : k \in 1..Len(last.key.kwargs)}

\* Rows i and j of the table before the sort are equal on every key
Tied(i, j) == \A name \in SortedOn : DataOf(last.key.table, name)[i] = DataOf(last.key.table, name)[j]

RowOrders(n) == {p \in [1..n -> 1..n] : \A i, j \in 1..n : p[i] = p[j] => i = j}

\* C16: a sort on any keys, ascending or descending, moves whole rows (one
\* permutation gives every column of the table after the sort) and leaves
\* rows that are equal on every key in the order they had before.
C16_SortStability ==
    Sorted =>
        \E p \in RowOrders(OldLen(last.key.table)) :
            /\ \A c \in 1..Len(last.key.table) :
                  /\ last.res.val[c].name = last.key.table[c].name
                  /\ last.res.val[c].data = [pos \in 1..OldLen(last.key.table) |->
                                                last.key.table[c].data[p[pos]]]
            /\ \A a, b \in 1..OldLen(last.key.table) :
                  (a < b /\ Tied(p[a], p[b])) => p[a] < p[b]

\* A descending sort on A of a table where two rows tie on A and a third row
\* with a smaller A stands before them: the permutation is not the identity
C16_Witness ==
    /\ Sorted
    /\ last.key.kwargs = <<[name |-> "A", reverse |-> TRUE]>>
    /\ DataOf(last.key.table, "A") = <<Some(1), Some(2), Some(2)>>
    /\ DataOf(last.res.val, "N") = <<Some(2), Some(3), Some(1)>>

\* -------------------------------------------------------------------- joins
\* The members of a set of numbers, smallest first
SmallestFirst(S) == [k \in 1..Cardinality(S) |-> CHOOSE x \in S : Cardinality({y \in S : y < x}) = k - 1]

\* old/tablite/core.py:555-591  filter(*keys): the key tuple of row ix
KeyAt(t, keys, ix) == [k \in 1..Len(keys) |-> DataOf(t, keys[k])[ix]]

\* old/tablite/core.py:499-504  index(*keys): key tuple -> set of row ids.
\* The dict lists its keys in the order they were first met; the rows of a
\* key are taken smallest first.
index(t, keys) ==
    LET firsts == SmallestFirst({i \in 1..OldLen(t) :
                                \A j \in 1..(i - 1) : KeyAt(t, keys, j) # KeyAt(t, keys, i)})
    IN  [k \in 1..Len(firsts) |->
            [key |-> KeyAt(t, keys, firsts[k]),
             ixs |-> SmallestFirst({i \in 1..OldLen(t) : KeyAt(t, keys, i) = KeyAt(t, keys, firsts[k])})]]

\* dict.get(key, default) on an index: the rows of the key
IndexGet(idx, key, default) ==
    IF \E k \in 1..Len(idx) : idx[k].key = key
    THEN LET ixs == idx[CHOOSE k \in 1..Len(idx) : idx[k].key = key].ixs
         IN  [i \in 1..Len(ixs) |-> Some(ixs[i])]
    ELSE default

\* Column.types(): the types met among the values of a column
Types(data) ==
    {"int" : i \in {i \in 1..Len(data) : data[i] # None}}
        \cup {"NoneType" : i \in {i \in 1..Len(data) : data[i] = None}}

HasColumn(t, name) == \E c \in 1..Len(t) : t[c].name = name

\* joins.py:4-37  _jointype_check: the error it raises, or "ok"
_jointype_check(self, other, left_keys, right_keys) ==
    IF \E k \in 1..Len(left_keys) : ~HasColumn(self, left_keys[k]) THEN "ValueError"
    ELSE IF \E k \in 1..Len(right_keys) : ~HasColumn(other, right_keys[k]) THEN "ValueError"
    ELSE IF Len(left_keys) # Len(right_keys) THEN "ValueError"
    ELSE IF \E k \in 1..Len(left_keys) :
               Types(DataOf(self, left_keys[k])) \cap Types(DataOf(other, right_keys[k])) = {}
         THEN "TypeError"
    ELSE IF self = <<>> \/ other = <<>> THEN "TypeError"
    ELSE "ok"

\* The row pairs of one left key: every row of the key with every row in
\* right_ixs
Crossed(left_ixs, right_ixs) ==
    Flatten([i \in 1..Len(left_ixs) |->
                [j \in 1..Len(right_ixs) |-> [l |-> Some(left_ixs[i]), r |-> right_ixs[j]]]])

\* The pairs were a left key without a match to give no row
LeftPairsMatchedOnly(self, other, left_keys, right_keys) ==
    LET left_index == index(self, left_keys)
    IN  Flatten([k \in 1..Len(left_index) |->
                    Crossed(left_index[k].ixs,
                            IndexGet(index(other, right_keys), left_index[k].key, <<>>))])

\* joins.py:203-211  left_join: LEFT and RIGHT, filled key by key
LeftPairs(self, other, left_keys, right_keys) ==
    LET left_index == index(self, left_keys)
    IN  Flatten([k \in 1..Len(left_index) |->
                    Crossed(left_index[k].ixs,
                            IndexGet(index(other, right_keys), left_index[k].key, <<None>>))])

\* The pairs were a left key without a match to keep its rows
InnerPairsKeepLeft(self, other, left_keys, right_keys) ==
    LeftPairs(self, other, left_keys, right_keys)

\* joins.py:247-257  inner_join: a left key without a match is passed over
InnerPairs(self, other, left_keys, right_keys) ==
    LET left_index == index(self, left_keys)
    IN  Flatten([k \in 1..Len(left_index) |->
                    Crossed(left_index[k].ixs,
                            IndexGet(index(other, right_keys), left_index[k].key, <<>>))])

\* joins.py:294-301  RIGHT_UNUSED: the right keys no left key equals
RIGHT_UNUSED(self, other, left_keys, right_keys) ==
    LET left_index == index(self, left_keys)
        right_index == index(other, right_keys)
    IN  {right_index[k].key : k \in 1..Len(right_index)}
            \ {left_index[k].key : k \in 1..Len(left_index)}

\* The pairs were the unused right keys to give their first row only
OuterPairsFirstRow(self, other, left_keys, right_keys, unused) ==
    LeftPairs(self, other, left_keys, right_keys)
        \o [k \in 1..Len(unused) |->
               [l |-> None, r |-> Head(IndexGet(index(other, right_keys), unused[k], <<>>))]]

\* joins.py:292-306  outer_join: the left join, then the rows of the unused
\* right keys; unused is the order the set RIGHT_UNUSED is iterated in
OuterPairs(self, other, left_keys, right_keys, unused) ==
    LeftPairs(self, other, left_keys, right_keys)
        \o Flatten([k \in 1..Len(unused) |->
                       LET right_ixs == IndexGet(index(other, right_keys), unused[k], <<>>)
                       IN  [j \in 1..Len(right_ixs) |-> [l |-> None, r |-> right_ixs[j]]]])

\* The names were each right column to be named against the left names only
RevisedNamesLeftOnly(names, taken) == [i \in 1..Len(names) |-> unique_name(names[i], taken)]

\* joins.py:67-73  the names of the right columns in the result
RECURSIVE RevisedNames(_, _)
RevisedNames(names, taken) ==
    IF names = <<>> THEN <<>>
    ELSE LET revised_name == unique_name(Head(names), taken)
         IN  <<revised_name>> \o RevisedNames(Tail(names), taken \cup {revised_name})

\* joins.py:55-74  _sp_join: the left columns gathered by LEFT, the right
\* columns by RIGHT, None where the row id is None
_sp_join(self, other, pairs) ==
    LET revised == RevisedNames([c \in 1..Len(other) |-> other[c].name],
                                {self[c].name : c \in 1..Len(self)})
    IN  [c \in 1..Len(self) |->
            [name |-> self[c].name,
             data |-> [k \in 1..Len(pairs) |->
                          IF pairs[k].l = None THEN None ELSE self[c].data[Val(pairs[k].l)]]]]
        \o [c \in 1..Len(other) |->
               [name |-> revised[c],
                data |-> [k \in 1..Len(pairs) |->
                             IF pairs[k].r = None THEN None ELSE other[c].data[Val(pairs[k].r)]]]]

\* a.inner_join(b, ..), a.left_join(b, ..), a.outer_join(b, ..) with all
\* columns retained and the gather done in the calling process: the validation,
\* the row pairs, and the result Table with its pages
Join(kind, a, b, left_keys, right_keys, unused) ==
    /\ ~exited
    /\ Live(a) /\ Live(b)
    /\ \E self \in {TableData(Heap, tables[a].cols)}, other \in {TableData(Heap, tables[b].cols)} :
       \E check \in {_jointype_check(self, other, left_keys, right_keys)} :
          LET key == [kind |-> kind, self |-> a, other |-> b, left_keys |-> left_keys,
                      right_keys |-> right_keys]
          IN  IF check # "ok"
              THEN /\ unused = <<>>
                   /\ NoTableInit
                   /\ HeapUnchanged
                   /\ last' = Call("join", 0, key, Result(check, <<>>))
              ELSE \E pairs \in {IF kind = "inner" THEN InnerPairs(self, other, left_keys, right_keys)
                                 ELSE IF kind = "left" THEN LeftPairs(self, other, left_keys, right_keys)
                                 ELSE OuterPairs(self, other, left_keys, right_keys, unused)} :
                   \E result \in {_sp_join(self, other, pairs)} :
                   \E built \in {BuildCols(Heap, [c \in 1..Len(result) |->
                                                   Col(result[c].name, _paginate(result[c].data, PAGE_SIZE))],
                                           <<>>)} :
                       /\ SeqRange(unused) =
                              (IF kind = "outer" THEN RIGHT_UNUSED(self, other, left_keys, right_keys) ELSE {})
                       /\ Len(unused) = Cardinality(SeqRange(unused))
                       /\ FreeHandles # {}
                       /\ TableInit
                       /\ Store([tables EXCEPT ![NewHandle] = [id |-> nextTableId, cols |-> built.cols]],
                                built.heap)
                       /\ last' = Call("join", NewHandle, key, Result("table", NewHandle))
    /\ UNCHANGED <<PAGE_SIZE, exited, archives>>

\* Tables of up to n rows: a key column A with any cells and a column B that
\* numbers the rows
JoinTables(n) ==
    {<<Col("A", _paginate(a, DefaultPageSize)),
       Col("B", _paginate([i \in 1..Len(a) |-> Some(i)], DefaultPageSize))>> :
        a \in UNION {[1..m -> Cells] : m \in 0..n}}

JoinKeys == {<<"A">>, <<"A", "B">>, <<"X">>}

\* The orders a set can be iterated in
Orders(S) == {s \in [1..Cardinality(S) -> S] : \A i, j \in 1..Cardinality(S) : s[i] = s[j] => i = j}

\* The orders outer_join can meet the unused right keys in
UnusedOrders(kind, a, b, left_keys, right_keys) ==
    LET self == TableData(Heap, tables[a].cols)
        other == TableData(Heap, tables[b].cols)
    IN  IF kind = "outer" /\ _jointype_check(self, other, left_keys, right_keys) = "ok"
        THEN Orders(RIGHT_UNUSED(self, other, left_keys, right_keys))
        ELSE {<<>>}

InitJoin ==
    \E x \in JoinTables(MaxRows), y \in JoinTables(MaxRows) : Started(<<x, y>>, DefaultPageSize)

NextJoin ==
    /\ last.op = "start"
    /\ \E kind \in {"inner", "left", "outer"}, left_keys \in JoinKeys, right_keys \in JoinKeys :
          \E unused \in UnusedOrders(kind, 1, 2, left_keys, right_keys) :
              Join(kind, 1, 2, left_keys, right_keys, unused)

SpecJoin == InitJoin /\ [][NextJoin]_vars

\* -------------------------------------------------------- joins: the claims
\* The join of the given kind has just returned a Table
Joined(kind) == last.op = "join" /\ last.key.kind = kind /\ last.res.kind = "table"

LeftTable == TableData(Heap, tables[1].cols)

RightTable == TableData(Heap, tables[2].cols)

Output == TableData(Heap, Returned.cols)

\* Left row l and right row r have equal key tuples
Matches(l, r) ==
    KeyAt(LeftTable, last.key.left_keys, l) = KeyAt(RightTable, last.key.right_keys, r)

Matched(l) == \E r \in 1..OldLen(RightTable) : Matches(l, r)

MatchedRight(r) == \E l \in 1..OldLen(LeftTable) : Matches(l, r)

\* The values of row ix of a table, all null when the row is None
RowOf(t, ix) == [c \in 1..Len(t) |-> IF ix = None THEN None ELSE t[c].data[Val(ix)]]

\* The output row for left row l and right row r: the left columns, then the
\* right columns
PairRow(l, r) == RowOf(LeftTable, l) \o RowOf(RightTable, r)

OutputRow(k) == [c \in 1..Len(Output) |-> Output[c].data[k]]

\* How many output rows equal the row
Count(row) == Cardinality({k \in 1..OldLen(Output) : OutputRow(k) = row})

\* --------------------------------------------------------------------- C17
\* C17: an inner join holds exactly one row for every left row l and right
\* row r with equal key tuples, made of l's values and r's values, and no
\* other row.
C17_InnerJoin ==
    Joined("inner") =>
        /\ \A l \in 1..OldLen(LeftTable), r \in 1..OldLen(RightTable) :
              Count(PairRow(Some(l), Some(r))) = (IF Matches(l, r) THEN 1 ELSE 0)
        /\ \A k \in 1..OldLen(Output) :
              \E l \in 1..OldLen(LeftTable), r \in 1..OldLen(RightTable) :
                  Matches(l, r) /\ OutputRow(k) = PairRow(Some(l), Some(r))

\* Left keys 1, 1, 2 against right keys 1, None: two pairs match, one left
\* row and one right row match nothing
JoinScenario ==
    /\ last.key.left_keys = <<"A">>
    /\ last.key.right_keys = <<"A">>
    /\ DataOf(LeftTable, "A") = <<Some(1), Some(1), Some(2)>>
    /\ DataOf(RightTable, "A") = <<Some(1), None>>

C17_Witness == Joined("inner") /\ JoinScenario /\ OldLen(Output) = 2

C19_LeftJoinOrder ==
    Joined("left") =>
        \A j, k \in 1..OldLen(Output) :
            j < k => Val(DataOf(Output, "B")[j]) <= Val(DataOf(Output, "B")[k])

LeftJoinOnEmpty ==
    /\ last.op = "join"
    /\ last.key.kind = "left"
    /\ last.key.left_keys = last.key.right_keys
    /\ last.key.left_keys \in {<<"A">>, <<"A", "B">>}
    /\ OldLen(RightTable) = 0

\* C21: the left join of a table t with a right table that has the key
\* columns and no rows returns, without an error, t's rows in t's order with
\* null in every right-side column.
C21_JoinIdentity ==
    LeftJoinOnEmpty =>
        /\ last.res.kind = "table"
        /\ OldLen(Output) = OldLen(LeftTable)
        /\ \A k \in 1..OldLen(LeftTable) : OutputRow(k) = PairRow(Some(k), None)

\* ------------------------------------------------------ joins: column names
\* Duplicate-free lists of column names, some of them of the form name_i
NameLists ==
    {l \in UNION {[1..n -> {"A", "A_1", "B"}] : n \in 1..MaxNames} :
        \A i, j \in 1..Len(l) : l[i] = l[j] => i = j}

\* Two tables of one row, with any of the name lists
InitJoinNames ==
    \E x \in NameLists, y \in NameLists :
        Started(<<[c \in 1..Len(x) |-> Col(x[c], _paginate(<<Some(1)>>, DefaultPageSize))],
                  [c \in 1..Len(y) |-> Col(y[c], _paginate(<<Some(1)>>, DefaultPageSize))]>>,
                DefaultPageSize)

\* The tables are joined on their first columns
NextJoinNames ==
    /\ last.op = "start"
    /\ \E kind \in {"inner", "left", "outer"} :
          \E unused \in UnusedOrders(kind, 1, 2, <<tables[1].cols[1].name>>, <<tables[2].cols[1].name>>) :
              Join(kind, 1, 2, <<tables[1].cols[1].name>>, <<tables[2].cols[1].name>>, unused)

SpecJoinNames == InitJoinNames /\ [][NextJoinNames]_vars

\* --------------------------------------------------------------------- C22
\* The names the result has before its column c
UsedBefore(c) == {Output[d].name : d \in 1..(c - 1)}

Suffixed(name, i) == name \o "_" \o ToString(i)

\* C22: the result of a join has one column per left and per right column
\* and no name twice; the left names are kept, a right column with a name
\* not yet used keeps it, and one with a used name is called name_i for the
\* smallest i >= 1 that is not yet used.
C22_JoinColumnNames ==
    (last.op = "join" /\ last.res.kind = "table") =>
        /\ Len(Output) = Len(LeftTable) + Len(RightTable)
        /\ \A c, d \in 1..Len(Output) : Output[c].name = Output[d].name => c = d
        /\ \A c \in 1..Len(LeftTable) : Output[c].name = LeftTable[c].name
        /\ \A j \in 1..Len(RightTable) :
              LET c == Len(LeftTable) + j
                  name == RightTable[j].name
              IN  IF name \notin UsedBefore(c) THEN Output[c].name = name
                  ELSE \E i \in 1..Len(Output) :
                          /\ Output[c].name = Suffixed(name, i)
                          /\ Suffixed(name, i) \notin UsedBefore(c)
                          /\ \A h \in 1..(i - 1) : Suffixed(name, h) \in UsedBefore(c)

\* Left columns A and A_1 joined with right columns A and A_1: the right A
\* finds A_1 taken, and the right A_1 finds itself taken
C22_Witness ==
    /\ last.op = "join"
    /\ last.res.kind = "table"
    /\ [c \in 1..Len(Output) |-> Output[c].name] = <<"A", "A_1", "A_2", "A_1_1">>


\* ----------------------------------------------------------------- group-by
\* A GroupBy of the earlier core: keys, groupby_functions (the column each Sum
\* reads), _output (None until the first table is added), _required_headers
\* and aggregation_functions, the dict as the list of its items in the order
\* the keys were first met, each with the running values of its functions.
\* The tables it reads carry the datatype and allow_empty of every column.
ColumnOf(t, name) == t[CHOOSE c \in 1..Len(t) : t[c].name = name]

\* groupby_utils.Sum.update: numeric accumulation, a None counted as 0
SumUpdate(value, v) == value + (IF v = None THEN 0 ELSE Val(v))

\* old/tablite/core.py:1075  f"{fn.__name__}({h})"
function_name(h) == "Sum(" \o h \o ")"

\* old/tablite/core.py:997-1053  GroupBy.__init__: duplicate keys raise
GroupBy(keys, functions) ==
    IF \E i, j \in 1..Len(keys) : i # j /\ keys[i] = keys[j]
    THEN Result("ValueError", <<>>)
    ELSE Result("GroupBy", [keys |-> keys, groupby_functions |-> functions, _output |-> None,
                            _required_headers |-> <<>>, aggregation_functions |-> <<>>])

\* old/tablite/core.py:1058-1077  _setup: the output has one empty column per
\* key, of the key's datatype, and one per function, all with allow_empty
_setup(g, table) ==
    [g EXCEPT !._required_headers = g.keys \o g.groupby_functions,
              !._output = Some([c \in 1..(Len(g.keys) + Len(g.groupby_functions)) |->
                  IF c <= Len(g.keys)
                  THEN [name |-> g.keys[c], data |-> <<>>,
                        datatype |-> ColumnOf(table, g.keys[c]).datatype, allow_empty |-> TRUE]
                  ELSE [name |-> function_name(g.groupby_functions[c - Len(g.keys)]), data |-> <<>>,
                        datatype |-> ColumnOf(table, g.groupby_functions[c - Len(g.keys)]).datatype,
                        allow_empty |-> TRUE]])]

\* old/tablite/core.py:452-469  Table.compare: every column of either table
\* is in the other with the same datatype and the same allow_empty
compare(self, other) ==
    IF \A pair \in {<<self, other>>, <<other, self>>} : \A c \in 1..Len(pair[1]) :
          /\ HasColumn(pair[2], pair[1][c].name)
          /\ pair[1][c].datatype = ColumnOf(pair[2], pair[1][c].name).datatype
          /\ pair[1][c].allow_empty = ColumnOf(pair[2], pair[1][c].name).allow_empty
    THEN "True"
    ELSE "ValueError"

\* The loop were every row to make a group of its own
UpdateRowsGroupPerRow(g, aggregation_functions, other, ix) ==
    aggregation_functions \o
        [i \in 1..(OldLen(other) - ix + 1) |->
            [key |-> KeyAt(other, g.keys, ix + i - 1),
             functions |-> [f \in 1..Len(g.groupby_functions) |->
                               SumUpdate(0, DataOf(other, g.groupby_functions[f])[ix + i - 1])]]]

\* old/tablite/core.py:1090-1099  the loop over the rows of other from row ix
\* on: the functions of the row's key are looked up, made anew when there
\* are none, and each is updated with the value of its column
RECURSIVE UpdateRows(_, _, _, _)
UpdateRows(g, aggregation_functions, other, ix) ==
    IF ix > OldLen(other) THEN aggregation_functions
    ELSE LET key == KeyAt(other, g.keys, ix)
             met == {k \in 1..Len(aggregation_functions) : aggregation_functions[k].key = key}
             got == IF met = {} THEN <<>> ELSE aggregation_functions[CHOOSE k \in met : TRUE].functions
             functions == IF got = <<>> THEN [f \in 1..Len(g.groupby_functions) |-> 0] ELSE got
             item == [key |-> key,
                      functions |-> [f \in 1..Len(functions) |->
                                        SumUpdate(functions[f], DataOf(other, g.groupby_functions[f])[ix])]]
         IN  UpdateRows(g,
                        IF met = {} THEN Append(aggregation_functions, item)
                        ELSE [aggregation_functions EXCEPT ![CHOOSE k \in met : TRUE] = item],
                        other, ix + 1)

\* old/tablite/core.py:1079-1100  GroupBy.__iadd__: the first table sets the
\* output up (a key or a function column it lacks raises KeyError), a later
\* one is compared with the output (ValueError); filter raises ValueError for
\* a header the table lacks; then the rows are read
__iadd__(g, other) ==
    IF g._output = None /\ \E h \in SeqRange(g.keys \o g.groupby_functions) : ~HasColumn(other, h)
    THEN Result("KeyError", <<>>)
    ELSE IF g._output # None /\ compare(Val(g._output), other) # "True"
    THEN Result("ValueError", <<>>)
    ELSE IF \E h \in SeqRange(g.keys \o g.groupby_functions) : ~HasColumn(other, h)
    THEN Result("ValueError", <<>>)
    ELSE LET s == IF g._output = None THEN _setup(g, other) ELSE g
         IN  Result("GroupBy",
                    [s EXCEPT !.aggregation_functions = UpdateRows(s, s.aggregation_functions, other, 1)])

\* old/tablite/core.py:1102-1108  _generate_table: one row per item of the
\* dict, the key then the values; the dict is cleared and the output sorted
\* ascending on the keys
_generate_table(g) ==
    LET output == Val(g._output)
        rows == [c \in 1..Len(output) |->
                    [name |-> output[c].name,
                     data |-> output[c].data \o
                        [k \in 1..Len(g.aggregation_functions) |->
                            IF c <= Len(g.keys) THEN g.aggregation_functions[k].key[c]
                            ELSE Some(g.aggregation_functions[k].functions[c - Len(g.keys)])]]]
        sorted == sort(rows, [k \in 1..Len(g.keys) |-> [name |-> g.keys[k], reverse |-> FALSE]])
    IN  [g EXCEPT !.aggregation_functions = <<>>,
                  !._output = Some([c \in 1..Len(output) |-> [output[c] EXCEPT !.data = sorted[c].data]])]

\* old/tablite/core.py:1110-1120  GroupBy.table
table(g) ==
    IF g._output = None THEN Result("None", <<>>)
    ELSE IF g.aggregation_functions # <<>> THEN Result("Table", Val(_generate_table(g)._output))
    ELSE Result("Table", Val(g._output))

\* The record of a call on a GroupBy: the tables added so far and the
\* GroupBy, or the error, that the call left
GroupCall(op, keys, functions, added, res) ==
    /\ ~exited
    /\ last' = Call(op, 0, [keys |-> keys, functions |-> functions, added |-> added], res)
    /\ NoTableInit
    /\ HeapUnchanged
    /\ UNCHANGED <<PAGE_SIZE, exited, archives>>

\* g = GroupBy(keys=keys, functions=functions)
NewGroupBy(keys, functions) ==
    /\ last.op = "start"
    /\ GroupCall("GroupBy", keys, functions, <<>>, GroupBy(keys, functions))

\* old/tablite/core.py:852-874  Table.groupby: g = GroupBy(...); g += self
Groupby(self, keys, functions) ==
    /\ last.op = "start"
    /\ \E g \in {GroupBy(keys, functions)} :
          GroupCall("groupby", keys, functions, <<self>>,
                    IF g.kind = "GroupBy" THEN __iadd__(g.val, self) ELSE g)

\* The rows of the tables added so far
RowsAdded == SumSeq([i \in 1..Len(last.key.added) |-> OldLen(last.key.added[i])])

\* g += other on the GroupBy the last call left
IAdd(other) ==
    /\ last.op \in {"GroupBy", "groupby", "iadd"}
    /\ last.res.kind = "GroupBy"
    /\ Len(last.key.added) < MaxAdds
    /\ RowsAdded + OldLen(other) <= MaxRows
    /\ GroupCall("iadd", last.key.keys, last.key.functions, Append(last.key.added, other),
                 __iadd__(last.res.val, other))

\* g.table on the GroupBy the last call left
GetTable ==
    /\ last.op \in {"GroupBy", "groupby", "iadd"}
    /\ last.res.kind = "GroupBy"
    /\ GroupCall("table", last.key.keys, last.key.functions, last.key.added, table(last.res.val))

\* Tables of int columns A and B of up to n rows: with allow_empty any cell
\* may be None, without it none is
GroupTables(n) ==
    {<<[name |-> "A", data |-> d[1], datatype |-> "int", allow_empty |-> e],
       [name |-> "B", data |-> d[2], datatype |-> "int", allow_empty |-> e]>> :
        <<e, d>> \in UNION {{e} \X ([1..m -> IF e THEN Cells ELSE Cells \ {None}]
                                     \X [1..m -> IF e THEN Cells ELSE Cells \ {None}]) :
                            <<e, m>> \in BOOLEAN \X (0..n)}}

\* Keys: a column, both columns, none, a name that is no column, a name twice
GroupKeys == {<<"A">>, <<"A", "B">>, <<>>, <<"X">>, <<"A", "A">>}

\* Functions: the Sum of a column, or no function
GroupFunctions == {<<"B">>, <<"A">>, <<>>}

InitGroupBy == Started(<<>>, DefaultPageSize)

NextGroupBy ==
    \/ /\ last.op = "start"
       /\ \E keys \in GroupKeys, functions \in GroupFunctions :
             /\ keys \o functions # <<>>
             /\ NewGroupBy(keys, functions)
    \/ /\ last.op = "start"
       /\ \E self \in GroupTables(MaxRows), keys \in GroupKeys, functions \in GroupFunctions :
             /\ keys \o functions # <<>>
             /\ Groupby(self, keys, functions)
    \/ /\ last.res.kind = "GroupBy"
       /\ \E other \in GroupTables(MaxRows - RowsAdded) : IAdd(other)
    \/ GetTable

SpecGroupBy == InitGroupBy /\ [][NextGroupBy]_vars

\* --------------------------------------------------------------------- C23
\* Cells in ascending order, None below every value; key tuples compared
\* cell by cell from the first
CellLess(a, b) == a # b /\ (a = None \/ (b # None /\ Val(a) < Val(b)))

KeyLess(a, b) == \E k \in 1..Len(a) : CellLess(a[k], b[k]) /\ \A j \in 1..(k - 1) : a[j] = b[j]

\* The key of row r of a group-by output and the rows of source with a key
OutKey(out, keys, r) == [k \in 1..Len(keys) |-> out[k].data[r]]

RowsWith(source, keys, key) == {ix \in 1..OldLen(source) : KeyAt(source, keys, ix) = key}

\* The sum of column col of source over the rows in ixs, a None counted as 0
SumOver(source, col, ixs) ==
    SumSeq([ix \in 1..OldLen(source) |->
               IF ix \in ixs /\ DataOf(source, col)[ix] # None THEN Val(DataOf(source, col)[ix]) ELSE 0])

\* out is the group-by of source: one row per distinct key tuple of source,
\* keys ascending, every source row in exactly one group, and every Sum the
\* sum of its column over the rows of the group
GroupsOf(out, keys, functions, source) ==
    /\ Len(out) = Len(keys) + Len(functions)
    /\ OldLen(out) = Cardinality({KeyAt(source, keys, ix) : ix \in 1..OldLen(source)})
    /\ \A r, s \in 1..OldLen(out) : r < s => KeyLess(OutKey(out, keys, r), OutKey(out, keys, s))
    /\ \A ix \in 1..OldLen(source) :
          Cardinality({r \in 1..OldLen(out) : OutKey(out, keys, r) = KeyAt(source, keys, ix)}) = 1
    /\ \A r \in 1..OldLen(out) : \A f \in 1..Len(functions) :
          /\ out[Len(keys) + f].name = function_name(functions[f])
          /\ out[Len(keys) + f].data[r] =
                Some(SumOver(source, functions[f], RowsWith(source, keys, OutKey(out, keys, r))))

\* t.groupby(keys, [(col, Sum)]).table was read
Grouped ==
    /\ last.op = "table"
    /\ Len(last.key.added) = 1
    /\ Len(last.key.functions) = 1
    /\ last.res.kind = "Table"

\* C23: groupby(keys, [(col, Sum)]) over a table gives exactly one output row
\* per distinct key tuple of the source, in ascending key order (None first);
\* every source row belongs to exactly one group, and the Sum of a group is
\* the sum of col over exactly the source rows with that key.
C23_GroupBy ==
    Grouped => GroupsOf(last.res.val, last.key.keys, last.key.functions, last.key.added[1])

\* Rows with the keys 2, 1, 2: two groups, the later key first in the output
C23_Witness ==
    /\ Grouped
    /\ last.key.keys = <<"A">>
    /\ last.key.functions = <<"B">>
    /\ DataOf(last.key.added[1], "A") = <<Some(2), Some(1), Some(2)>>
    /\ DataOf(last.key.added[1], "B") = <<Some(1), Some(2), None>>
    /\ DataOf(last.res.val, "A") = <<Some(1), Some(2)>>
    /\ DataOf(last.res.val, "Sum(B)") = <<Some(2), Some(1)>>

\* --------------------------------------------------------------------- C30
\* The rows of t1 followed by the rows of t2, column by column
Concatenation(t1, t2) == [c \in 1..Len(t1) |-> [t1[c] EXCEPT !.data = t1[c].data \o DataOf(t2, t1[c].name)]]

\* g += t1 and then g += t2 ran, t1 and t2 with the same columns
AddedTwice ==
    /\ last.op = "iadd"
    /\ Len(last.key.added) = 2
    /\ compare(last.key.added[1], last.key.added[2]) = "True"

\* C30: after g += t1 followed by g += t2, tables with the same columns, the
\* GroupBy gives one row per distinct key tuple over the rows of both tables
\* and each Sum covers the rows of both, as the group-by of the rows of t1
\* followed by those of t2.
C30_IncrementalGroupBy ==
    AddedTwice =>
        /\ last.res.kind = "GroupBy"
        /\ table(last.res.val).kind = "Table"
        /\ GroupsOf(table(last.res.val).val, last.key.keys, last.key.functions,
                    Concatenation(last.key.added[1], last.key.added[2]))

\* ------------------------------------------------- Table.__eq__ with a dict
\* base.py:241-243  Table.items(): every column read whole with column[:],
\* which raises for a column that yields no array (base.py:132)
items(h, cols) ==
    IF \E i \in 1..Len(cols) : ColumnGetItem(h, cols[i].col, Slice(None, None, None)).kind # "array"
    THEN Result("UnboundLocalError", <<>>)
    ELSE Result("dict_items",
                [i \in 1..Len(cols) |->
                    [name |-> cols[i].name,
                     data |-> ColumnGetItem(h, cols[i].col, Slice(None, None, None)).val]])

\* base.py:333-334  Table.__eq__ with a dict: the items views are compared,
\* whatever the order of the keys
TableEqDict(h, a, other) ==
    LET own == items(h, tables[a].cols)
    IN  IF own.kind # "dict_items" THEN own
        ELSE Result("bool", SeqRange(own.val) = SeqRange(other))

\* a == other, other a dict of lists
EqDict(a, other) ==
    /\ ~exited
    /\ Live(a)
    /\ last' = Call("eq_dict", a, other, TableEqDict(Heap, a, other))
    /\ NoTableInit
    /\ HeapUnchanged
    /\ UNCHANGED <<PAGE_SIZE, exited, archives>>

\* One comparison of the tables the program built, with each other or with
\* the dict of the values of one of them
NextEqData ==
    /\ last.op = "start"
    /\ \/ \E a \in Handles, b \in Handles : Eq(a, b)
       \/ \E a \in Handles, b \in Handles : Live(b) /\ EqDict(a, TableData(Heap, tables[b].cols))

SpecEqData == InitEq /\ [][NextEqData]_vars

\* --------------------------------------------------------------------- C24
\* The data of a table as a dict: the set of its (name, values) items
DataDict(t) == SeqRange(TableData(Heap, tables[t].cols))

\* C24: two Tables built from the same data compare equal whatever PAGE_SIZE
\* each was built under, and a Table equals the dict of its column data.
C24_EqualityAcrossPagination ==
    /\ (last.op = "eq" /\ DataDict(last.t) = DataDict(last.key)) => last.res = Result("bool", TRUE)
    /\ (last.op = "eq_dict" /\ DataDict(last.t) = SeqRange(last.key)) => last.res = Result("bool", TRUE)

\* ------------------------------------------------------ Column.__getitem__
\* t[name][slc]: the column of a table, sliced (base.py:116-132)
ColumnSlice(t, name, slc) ==
    /\ ~exited
    /\ Live(t)
    /\ HasName(tables[t].cols, name)
    /\ last' = Call("column_getitem", t, [name |-> name, slice |-> slc],
                    ColumnGetItem(Heap, ColOf(tables[t].cols, name), slc))
    /\ NoTableInit
    /\ HeapUnchanged
    /\ UNCHANGED <<PAGE_SIZE, exited, archives>>

\* Slices with any start and stop and the steps of Slices and -2
ColumnSlices == Slices \cup {Slice(a, b, Some(-2)) : a \in Indexes, b \in Indexes}

\* One slice of a column of the table the program built
NextColumn ==
    /\ last.op = "start"
    /\ \E name \in Names, slc \in ColumnSlices : ColumnSlice(1, name, slc)

SpecColumn == InitQuery /\ [][NextColumn]_vars

\* The values of the column that was sliced, and the slice
SlicedData == ColumnData(Heap, ColOf(tables[last.t].cols, last.key.name))

StepOf(slc) == IF slc.step = None THEN 1 ELSE Val(slc.step)

\* --------------------------------------------------------------------- C25
\* C25: for every Column c with values data, in any page layout, and every
\* slice s with a negative step, c[s] is an array of the values data[s], in
\* the reversed order in which slicing the Python list gives them.
C25_NegativeStepSlice ==
    (last.op = "column_getitem" /\ StepOf(last.key.slice) < 0) =>
        last.res = Result("array", PySlice(SlicedData, last.key.slice))

\* --------------------------------------------------------------------- C26
\* C26: for every Column c and every slice s that selects no element, c[s]
\* is an empty array and no error is raised.
C26_ZeroLengthSlice ==
    (last.op = "column_getitem" /\ PySlice(SlicedData, last.key.slice) = <<>>) =>
        last.res = Result("array", <<>>)

\* --------------------------------------------------------------------- C27
\* C27: intercept(A, B) always returns a range, never None and never an
\* error; when A and B have no element in common, also when their extents
\* overlap and their steps never align, the range it returns is empty.
C27_InterceptReturnsRange ==
    last.op = "intercept" =>
        /\ last.res.kind = "range"
        /\ (RangeSet(last.key[1]) \cap RangeSet(last.key[2]) = {}) => RangeLen(last.res.val) = 0

\* --------------------------------------------------------------------- C28
\* The page ids the columns of the returned Table list, one per planned task
Destinations == UNION {SeqRange(columns[Returned.cols[j].col]) : j \in 1..Len(Returned.cols)}

\* C28: an import with lines to read plans its tasks, each with a destination
\* page id of its own that the controller took before the tasks ran (no id
\* twice in the plan), and each task writes exactly one page file, at its
\* destination: the page files are those of the destinations and no other.
C28_IngestWriteOnce ==
    WholeFile =>
        /\ last.res.kind = "table"
        /\ Returned.cols # <<>>
        /\ \A j \in 1..Len(Returned.cols) : columns[Returned.cols[j].col] # <<>>
        /\ Cardinality(Destinations)
              = SumSeq([j \in 1..Len(Returned.cols) |-> Len(columns[Returned.cols[j].col])])
        /\ DOMAIN files = Destinations

\* ------------------------------------------------------- pages over a run
\* A program that has built a table with an empty column A, under any page
\* size
InitPages == \E ps \in PageSizes : Started(<<<<Col("A", <<>>)>>>>, ps)

\* Column A is appended to, columns are assigned, tables are sliced, saved,
\* loaded and dropped
NextPages ==
    \/ \E t \in Handles, value \in Arrays \ {<<>>} : Extend(t, "A", value, MaxPageId)
    \/ \E t \in Handles, name \in Names, value \in Arrays \ {<<>>} : SetItem(t, name, value, MaxPageId)
    \/ \E t \in Handles, s \in {Slice(None, Some(1), None), Slice(Some(1), None, None)} :
          GetItem(t, Key(<<>>, <<>>, <<s>>), MaxPageId)
    \/ \E t \in Handles : Save(t, Path("a", ".tpz"))
    \/ Load(Path("a", ".tpz"), MaxPageId)
    \/ \E t \in Handles : Drop(t)

SpecPages == InitPages /\ [][NextPages]_vars

\* --------------------------------------------------------------------- C29
\* One step of the program keeps every page it leaves in place as it was:
\* the file and the length of a page that exists before and after the step
\* are unchanged, a page file that appears carries an id never handed out
\* before, the counter of ids never goes back, and the length every page
\* records is that of the array in its file
PagesKept ==
    /\ \A p \in DOMAIN files \cap DOMAIN files' : files'[p] = files[p]
    /\ \A p \in DOMAIN pages \cap DOMAIN pages' : pages'[p] = pages[p]
    /\ \A p \in DOMAIN files' \ DOMAIN files : p >= nextPageId /\ p < nextPageId'
    /\ nextPageId' >= nextPageId
    /\ \A p \in DOMAIN pages' \cap DOMAIN files' : pages'[p] = Len(files'[p])

\* C29: over any sequence of column appends, column assignments, table
\* slices, saves, loads and drops, the content and the length of every
\* existing page stay what they were when the page was written; no step
\* rewrites an existing page file and no page id is used a second time.
C29_PageImmutability == [][PagesKept]_vars

\* A table was saved and loaded while it lives on: the page written first
\* and its loaded copy both exist, under two ids, with the same values
C29_Witness ==
    /\ last.op = "load"
    /\ last.res.kind = "table"
    /\ \E p, q \in DOMAIN files : p < q /\ files[p] = files[q] /\ files[p] # <<>>

=============================================================================
